---- MODULE Spec2Model ----
(***************************************************************************)
(* Home purchase calculator (static/js/app.js): the financing sources, the *)
(* household members, the inputs read from the page, the stored copy of    *)
(* the state, and the recalculation pass calculate() with the functions it *)
(* calls.                                                                  *)
(*                                                                         *)
(* Money.  JavaScript numbers are modelled as exact rationals.  A money    *)
(* value is an integer count of 1/4000 of a dollar: the premium rates are  *)
(* multiples of 0.0010 and the provincial tax rate is 0.09975 = 399/4000,  *)
(* so for prices and down payments that are multiples of $1000 (the inputs *)
(* the model draws) the premium, the tax and the financed total are exact  *)
(* in that unit.  A ratio (the loan-to-value) is a reduced fraction        *)
(* [n, d] with d > 0.  A premium rate is an integer count of 0.0001.       *)
(***************************************************************************)
EXTENDS Integers, Sequences, FiniteSets, TLC

(***************************************************************************)
(* Bounds of the model.                                                    *)
(***************************************************************************)
\* user operations in one behaviour
MaxSteps == 2
\* length of the financingSources array
MaxSources == 7
\* length of the owners array
MaxOwners == 2
\* length of the renovations array
MaxRenovations == 2
\* largest number of members handed to the affordability indicators
MaxMembers == 3
\* largest price / down payment of the pure-function specifications, in $10,000
MaxPrice == 20
MaxDown == 22
MaxWelcomeGrid == 41
MaxTermYears == 40

(***************************************************************************)
(* Units.                                                                  *)
(***************************************************************************)
\* 0.09975 = TVQ_NUM / TVQ_DEN
TVQ_NUM == 399
TVQ_DEN == 4000
\* one dollar, in money units
Dollar == TVQ_DEN
\* $10,000 in money units
K10 == 10000 * Dollar
\* a premium rate of 1.0, in rate units of 0.0001
RateOne == 100 * 100

(***************************************************************************)
(* Exact arithmetic helpers.                                               *)
(***************************************************************************)
Abs(x) == IF x < 0 THEN -x ELSE x
Max(a, b) == IF a >= b THEN a ELSE b

RECURSIVE GCD(_, _)
GCD(a, b) == IF b = 0 THEN a ELSE GCD(b, a % b)

\* the rational n / d (d # 0), reduced, with a positive denominator
Rat(n, d) ==
    LET g == GCD(Abs(n), Abs(d))
        s == IF d < 0 THEN -1 ELSE 1
    IN  [n |-> s * (n \div g), d |-> s * (d \div g)]

RatLe(a, b) == a.n * b.d <= b.n * a.d
RatLt(a, b) == a.n * b.d < b.n * a.d
RatTimes(a, k) == Rat(a.n * k, a.d)

\* a whole number as a rational
RatOf(x) == [n |-> x, d |-> 1]
RatZero == RatOf(0)

\* sums, products and quotients of rationals, reduced before they are
\* formed so that the numbers stay small; the operands are values, as the
\* numbers of the program are
RatPlus(a, b) ==
    [x \in {a}, y \in {b} |->
        Rat(x.n * (y.d \div GCD(x.d, y.d)) + y.n * (x.d \div GCD(x.d, y.d)),
            (x.d \div GCD(x.d, y.d)) * y.d)][a, b]
RatNeg(a) == [n |-> 0 - a.n, d |-> a.d]
RatMinus(a, b) == RatPlus(a, RatNeg(b))
RatMul(a, b) ==
    [x \in {a}, y \in {b} |->
        Rat((x.n \div GCD(Abs(x.n), y.d)) * (y.n \div GCD(Abs(y.n), x.d)),
            (x.d \div GCD(Abs(y.n), x.d)) * (y.d \div GCD(Abs(x.n), y.d)))][a, b]
\* 1 / a, for a # 0
RatInv(a) == IF a.n < 0 THEN [n |-> 0 - a.d, d |-> 0 - a.n] ELSE [n |-> a.d, d |-> a.n]
RatDiv(a, b) == RatMul(a, RatInv(b))
RatIsPos(a) == a.n > 0
RatLess(a, b) == RatMinus(a, b).n < 0
RatMin(a, b) == IF RatLess(b, a) THEN b ELSE a
RatMax(a, b) == IF RatLess(a, b) THEN b ELSE a

\* Math.pow(a, k) for a whole number k >= 0
RECURSIVE RatPow(_, _)
RatPow(a, k) == IF k = 0 THEN RatOf(1) ELSE RatMul(a, RatPow(a, k - 1))

\* floor(x * n / d) without forming x * n; exact when d divides x * n
MulFrac(x, n, d) == (x \div d) * n + ((x % d) * n) \div d

\* Math.round of a money value: to the nearest dollar, halves upward
MathRound(x) == ((2 * x + Dollar) \div (2 * Dollar)) * Dollar

(***************************************************************************)
(* CONSTANTS of app.js                                                     *)
(***************************************************************************)
CMHC_RATES ==
    << [maxLtv |-> Rat(65, 100), rate |-> 60],
       [maxLtv |-> Rat(75, 100), rate |-> 170],
       [maxLtv |-> Rat(80, 100), rate |-> 240],
       [maxLtv |-> Rat(85, 100), rate |-> 280],
       [maxLtv |-> Rat(90, 100), rate |-> 310],
       [maxLtv |-> Rat(95, 100), rate |-> 400] >>

CMHC_30_YEAR_SURCHARGE == 20

\* the threshold of `ltv > 0.80` in calculateCmhc
CMHC_REQUIRED_LTV == Rat(80, 100)

FINANCING_TYPES ==
    [ mortgage      |-> [isLoan |-> TRUE,  countsTowardDownPayment |-> FALSE, isAutoCalculated |-> FALSE],
      celiapp       |-> [isLoan |-> FALSE, countsTowardDownPayment |-> TRUE,  isAutoCalculated |-> FALSE],
      rrsp          |-> [isLoan |-> FALSE, countsTowardDownPayment |-> TRUE,  isAutoCalculated |-> FALSE],
      tfsa          |-> [isLoan |-> FALSE, countsTowardDownPayment |-> TRUE,  isAutoCalculated |-> FALSE],
      joint_account |-> [isLoan |-> FALSE, countsTowardDownPayment |-> FALSE, isAutoCalculated |-> FALSE],
      parents_loan  |-> [isLoan |-> TRUE,  countsTowardDownPayment |-> TRUE,  isAutoCalculated |-> TRUE],
      other_loan    |-> [isLoan |-> TRUE,  countsTowardDownPayment |-> FALSE, isAutoCalculated |-> FALSE],
      other_savings |-> [isLoan |-> FALSE, countsTowardDownPayment |-> TRUE,  isAutoCalculated |-> FALSE] ]

SourceTypes == DOMAIN FINANCING_TYPES

\* FINANCING_TYPES.rrsp.maxWithdrawal and FINANCING_TYPES.celiapp.maxContribution
RRSP_MAX_WITHDRAWAL == 6 * K10
CELIAPP_MAX_CONTRIBUTION == 4 * K10

(***************************************************************************)
(* CALCULATION FUNCTIONS                                                   *)
(***************************************************************************)
\* calculateLtv with the down payment, not the loan, over the price
calculateLtv_DownOverPrice(purchasePrice, downPayment) ==
    IF purchasePrice <= 0 THEN Rat(0, 1)
    ELSE Rat(downPayment, purchasePrice)

calculateLtv(purchasePrice, downPayment) ==
    IF purchasePrice <= 0 THEN Rat(0, 1)
    ELSE Rat(purchasePrice - downPayment, purchasePrice)

\* the bracket loop with ltv < maxLtv for ltv <= maxLtv
RECURSIVE CmhcBracketRate_Exclusive(_, _)
CmhcBracketRate_Exclusive(ltv, i) ==
    IF i > Len(CMHC_RATES) THEN 0
    ELSE IF RatLt(ltv, CMHC_RATES[i].maxLtv) THEN CMHC_RATES[i].rate
    ELSE CmhcBracketRate_Exclusive(ltv, i + 1)

\* the bracket loop falling back on the last bracket's rate
RECURSIVE CmhcBracketRate_TopBracket(_, _)
CmhcBracketRate_TopBracket(ltv, i) ==
    IF i > Len(CMHC_RATES) THEN CMHC_RATES[Len(CMHC_RATES)].rate
    ELSE IF RatLe(ltv, CMHC_RATES[i].maxLtv) THEN CMHC_RATES[i].rate
    ELSE CmhcBracketRate_TopBracket(ltv, i + 1)

\* the rate of the first bracket from position i on with ltv <= maxLtv, else 0
RECURSIVE CmhcBracketRate(_, _)
CmhcBracketRate(ltv, i) ==
    IF i > Len(CMHC_RATES) THEN 0
    ELSE IF RatLe(ltv, CMHC_RATES[i].maxLtv) THEN CMHC_RATES[i].rate
    ELSE CmhcBracketRate(ltv, i + 1)

getCmhcRate(ltv, is30Year) ==
    CmhcBracketRate(ltv, 1) + (IF is30Year THEN CMHC_30_YEAR_SURCHARGE ELSE 0)

\* cmhcPremium * QUEBEC_TVQ_RATE
QuebecTaxOn(cmhcPremium) == MulFrac(cmhcPremium, TVQ_NUM, TVQ_DEN)

\* the threshold test with >= for >
CmhcRequiredAt_Inclusive(ltv) == RatLe(CMHC_REQUIRED_LTV, ltv)

\* ltv > 0.80
CmhcRequiredAt(ltv) == RatLt(CMHC_REQUIRED_LTV, ltv)

\* the premium charged whether insurance is required or not
CmhcPremium_Ungated(cmhcRequired, mortgageAmount, premiumRate) ==
    MulFrac(mortgageAmount, premiumRate, RateOne)

\* cmhcRequired ? mortgageAmount * premiumRate : 0
CmhcPremium(cmhcRequired, mortgageAmount, premiumRate) ==
    IF cmhcRequired THEN MulFrac(mortgageAmount, premiumRate, RateOne) ELSE 0

calculateCmhc(purchasePrice, downPayment, is30Year) ==
    LET mortgageAmount == purchasePrice - downPayment
        ltv == calculateLtv(purchasePrice, downPayment)
        downPaymentPercent ==
            IF purchasePrice > 0 THEN RatTimes(Rat(downPayment, purchasePrice), 100)
            ELSE Rat(0, 1)
        cmhcRequired == CmhcRequiredAt(ltv)
        premiumRate == getCmhcRate(ltv, is30Year)
        cmhcPremium == CmhcPremium(cmhcRequired, mortgageAmount, premiumRate)
        quebecTax == QuebecTaxOn(cmhcPremium)
        totalCmhcCost == cmhcPremium + quebecTax
        totalMortgage == mortgageAmount + totalCmhcCost
    IN  [ mortgageAmount |-> mortgageAmount,
          ltv |-> ltv,
          ltvPercent |-> RatTimes(ltv, 100),
          downPaymentPercent |-> downPaymentPercent,
          cmhcRequired |-> cmhcRequired,
          premiumRate |-> premiumRate,
          cmhcPremium |-> cmhcPremium,
          quebecTax |-> quebecTax,
          totalCmhcCost |-> totalCmhcCost,
          totalMortgage |-> totalMortgage ]

\* (annualRate / 100) / 12, the annual rate a rational number of percent
MonthlyRate(annualRate) == RatDiv(annualRate, RatOf(100 * 12))

\* the level payment P x [r(1+r)^n] / [(1+r)^n - 1]
LevelPayment(principal, monthlyRate, rateFactor) ==
    RatDiv(RatMul(principal, RatMul(monthlyRate, rateFactor)),
           RatMinus(rateFactor, RatOf(1)))

\* the branch of calculateMonthlyPayment for a rate other than zero
AmortizedPayment(principal, monthlyRate, termMonths, monthlyPayment) ==
    [ monthlyPayment |-> monthlyPayment,
      totalPayments |-> RatMul(monthlyPayment, termMonths),
      totalInterest |-> RatMinus(RatMul(monthlyPayment, termMonths), principal),
      monthlyRate |-> monthlyRate ]

\* calculateMonthlyPayment without its first test
calculateMonthlyPayment_Unguarded(principal, annualRate, termMonths) ==
    [ monthlyPayment |-> RatDiv(principal, IF termMonths = RatZero THEN RatOf(1) ELSE termMonths),
      totalPayments |-> principal,
      totalInterest |-> RatZero ]

\* calculateMonthlyPayment(principal, annualRate, termMonths), the three of
\* them rationals; at a rate other than zero termMonths is a whole number
calculateMonthlyPayment(principal, annualRate, termMonths) ==
    IF ~RatIsPos(principal) \/ ~RatIsPos(termMonths)
    THEN [monthlyPayment |-> RatZero, totalPayments |-> RatZero, totalInterest |-> RatZero]
    ELSE IF MonthlyRate(annualRate) = RatZero
    THEN [ monthlyPayment |-> RatDiv(principal, termMonths),
           totalPayments |-> principal,
           totalInterest |-> RatZero ]
    ELSE AmortizedPayment(principal, MonthlyRate(annualRate), termMonths,
             LevelPayment(principal, MonthlyRate(annualRate),
                 RatPow(RatPlus(RatOf(1), MonthlyRate(annualRate)), termMonths.n)))

\* calculatePaymentBreakdown(principal, annualRate, monthlyPayment) with no
\* currentBalance given
calculatePaymentBreakdown(principal, annualRate, monthlyPayment) ==
    [ interestPortion |-> RatMul(principal, MonthlyRate(annualRate)),
      principalPortion |->
          RatMinus(monthlyPayment, RatMul(principal, MonthlyRate(annualRate))) ]

\* the rate 1.0 of the welcome tax brackets, in rate units of 0.001
WELCOME_RATE_ONE == 10 * 100

\* Infinity, as the largest number the model holds
Infinity == 2147483647

QUEBEC_WELCOME_TAX_BRACKETS ==
    << [threshold |-> 55200,    rate |-> 5],
       [threshold |-> 276200,   rate |-> 10],
       [threshold |-> 500000,   rate |-> 15],
       [threshold |-> 1000000,  rate |-> 20],
       [threshold |-> Infinity, rate |-> 25] >>

Min(a, b) == IF a <= b THEN a ELSE b

\* bracket.threshold, in money units of which `unit` make one dollar
BracketThreshold(bracket, unit) ==
    IF bracket.threshold = Infinity THEN Infinity ELSE bracket.threshold * unit

\* the welcome tax with every bracket taxed on its full width
WelcomeAmountIn_FullWidth(bracket, unit, remaining, previousThreshold) ==
    BracketThreshold(bracket, unit) - previousThreshold

\* Math.min(remaining, bracket.threshold - previousThreshold)
WelcomeAmountIn(bracket, unit, remaining, previousThreshold) ==
    Min(remaining, BracketThreshold(bracket, unit) - previousThreshold)

\* the welcome tax with the first bracket's rate in every bracket
WelcomeTaxIn_FlatRate(bracket, amountInBracket) ==
    MulFrac(amountInBracket, QUEBEC_WELCOME_TAX_BRACKETS[1].rate, WELCOME_RATE_ONE)

\* amountInBracket * bracket.rate
WelcomeTaxIn(bracket, amountInBracket) ==
    MulFrac(amountInBracket, bracket.rate, WELCOME_RATE_ONE)

\* one turn of the loop of calculateWelcomeTax, for a bracket that takes a
\* positive amount
WelcomeBracketTaken(bracket, unit, purchasePrice, amountInBracket, acc) ==
    [ totalTax |-> acc.totalTax + WelcomeTaxIn(bracket, amountInBracket),
      remaining |-> acc.remaining - amountInBracket,
      previousThreshold |-> BracketThreshold(bracket, unit),
      breakdown |-> Append(acc.breakdown,
                        [ from |-> acc.previousThreshold,
                          to |-> Min(BracketThreshold(bracket, unit), purchasePrice),
                          rate |-> bracket.rate,
                          amount |-> amountInBracket,
                          tax |-> WelcomeTaxIn(bracket, amountInBracket) ]) ]

\* one turn of the loop, up to the test of `remaining <= 0`
WelcomeBracket(bracket, unit, purchasePrice, amountInBracket, acc) ==
    IF amountInBracket > 0
    THEN WelcomeBracketTaken(bracket, unit, purchasePrice, amountInBracket, acc)
    ELSE [acc EXCEPT !.previousThreshold = BracketThreshold(bracket, unit)]

\* the loop of calculateWelcomeTax from bracket i on; acc is the state the
\* loop has left after bracket i - 1
RECURSIVE WelcomeLoop(_, _, _, _)
WelcomeLoop(purchasePrice, unit, i, acc) ==
    IF i > Len(QUEBEC_WELCOME_TAX_BRACKETS) \/ (i > 1 /\ acc.remaining <= 0) THEN acc
    ELSE WelcomeLoop(purchasePrice, unit, i + 1,
             WelcomeBracket(QUEBEC_WELCOME_TAX_BRACKETS[i], unit, purchasePrice,
                 WelcomeAmountIn(QUEBEC_WELCOME_TAX_BRACKETS[i], unit,
                                 acc.remaining, acc.previousThreshold),
                 acc))

\* calculateWelcomeTax(purchasePrice), the price in units of which `unit`
\* make one dollar
calculateWelcomeTax(purchasePrice, unit) ==
    WelcomeLoop(purchasePrice, unit, 1,
        [totalTax |-> 0, remaining |-> purchasePrice, previousThreshold |-> 0,
         breakdown |-> << >>])

\* the status of calculateAffordability with both thresholds exclusive
AffordabilityStatus_Exclusive(percent) ==
    IF RatLess(percent, RatOf(30)) THEN "Affordable"
    ELSE IF RatLess(percent, RatOf(40)) THEN "Caution"
    ELSE "High Risk"

\* the status calculateAffordability gives to a percentage
AffordabilityStatus(percent) ==
    IF ~RatLess(RatOf(30), percent) THEN "Affordable"
    ELSE IF ~RatLess(RatOf(40), percent) THEN "Caution"
    ELSE "High Risk"

StatusColor(status) ==
    IF status = "Affordable" THEN "green"
    ELSE IF status = "Caution" THEN "yellow"
    ELSE "red"

\* calculateAffordability(totalMonthlyCosts, grossMonthlyIncome)
calculateAffordability(totalMonthlyCosts, grossMonthlyIncome) ==
    IF ~RatIsPos(grossMonthlyIncome)
    THEN [ratio |-> RatZero, percent |-> RatZero, status |-> "unknown",
          statusColor |-> "gray"]
    ELSE [ ratio |-> RatDiv(totalMonthlyCosts, grossMonthlyIncome),
           percent |-> RatMul(RatDiv(totalMonthlyCosts, grossMonthlyIncome), RatOf(100)),
           status |->
               AffordabilityStatus(
                   RatMul(RatDiv(totalMonthlyCosts, grossMonthlyIncome), RatOf(100))),
           statusColor |->
               StatusColor(AffordabilityStatus(
                   RatMul(RatDiv(totalMonthlyCosts, grossMonthlyIncome), RatOf(100)))) ]

(***************************************************************************)
(* AFFORDABILITY BAR INDICATORS                                            *)
(***************************************************************************)
\* the sum of the rationals f[lo..hi]
RECURSIVE RatSum(_, _, _)
RatSum(f, lo, hi) ==
    IF lo > hi THEN RatZero ELSE RatPlus(f[lo], RatSum(f, lo + 1, hi))

\* the housing cost status with both thresholds exclusive
HousingCostStatus_Exclusive(housingCostRatio) ==
    IF RatLess(housingCostRatio, RatOf(30)) THEN "Affordable"
    ELSE IF RatLess(housingCostRatio, RatOf(40)) THEN "Caution"
    ELSE "High Risk"

\* housingCostStatus of updateAffordabilityBars
HousingCostStatus(housingCostRatio) ==
    IF ~RatLess(RatOf(30), housingCostRatio) THEN "Affordable"
    ELSE IF ~RatLess(RatOf(40), housingCostRatio) THEN "Caution"
    ELSE "High Risk"

\* a share of the housing costs that is the same for every member
HousingCostShare_Whole(gdsHousingCosts, income, totalGrossIncome) == gdsHousingCosts

\* housingCostShare of updatePerPersonRatios
HousingCostShare(gdsHousingCosts, income, totalGrossIncome) ==
    RatMul(gdsHousingCosts, RatDiv(income, totalGrossIncome))

GdsStatus(gdsRatio) ==
    IF ~RatLess(RatOf(32), gdsRatio) THEN "Excellent"
    ELSE IF ~RatLess(RatOf(39), gdsRatio) THEN "Acceptable"
    ELSE "May Not Qualify"

TdsStatus(tdsRatio) ==
    IF ~RatLess(RatOf(40), tdsRatio) THEN "Excellent"
    ELSE IF ~RatLess(RatOf(44), tdsRatio) THEN "Acceptable"
    ELSE "May Not Qualify"

\* a ratio that reports a member without income as spending all of it
RatioOfIncome_AllOfIt(amount, income) ==
    IF RatIsPos(income) THEN RatMul(RatDiv(amount, income), RatOf(100)) ELSE RatOf(100)

\* (amount / owner.income) * 100 for an income above zero, 0 otherwise
RatioOfIncome(amount, income) ==
    IF RatIsPos(income) THEN RatMul(RatDiv(amount, income), RatOf(100)) ELSE RatZero

\* the card of one member, given the member's housingCostShare and tdsAmount
RatioCard(owner, totalGrossIncome, housingCostShare, tdsAmount) ==
    [ name |-> owner.name,
      incomeShare |-> RatDiv(owner.income, totalGrossIncome),
      housingCostShare |-> housingCostShare,
      gdsRatio |-> RatioOfIncome(housingCostShare, owner.income),
      gdsStatus |-> GdsStatus(RatioOfIncome(housingCostShare, owner.income)),
      tdsAmount |-> tdsAmount,
      tdsRatio |-> RatioOfIncome(tdsAmount, owner.income),
      tdsStatus |-> TdsStatus(RatioOfIncome(tdsAmount, owner.income)) ]

\* the TDS amount without the member's share of the RRSP repayment
TdsAmount_WithoutRrsp(housingCostShare, totalDebts, rrspPerPerson) ==
    RatPlus(housingCostShare, totalDebts)

\* housingCostShare + owner.totalDebts + rrspPerPerson
TdsAmount(housingCostShare, totalDebts, rrspPerPerson) ==
    RatPlus(RatPlus(housingCostShare, totalDebts), rrspPerPerson)

\* updatePerPersonRatios(ownerData, totalGrossIncome, gdsHousingCosts,
\* rrspMonthlyRepayment): the cards it writes, none when it writes the
\* placeholder
updatePerPersonRatios(ownerData, totalGrossIncome, gdsHousingCosts, rrspMonthlyRepayment) ==
    IF Len(ownerData) = 0 \/ ~RatIsPos(totalGrossIncome) THEN << >>
    ELSE [ i \in DOMAIN ownerData |->
             RatioCard(ownerData[i], totalGrossIncome,
                 HousingCostShare(gdsHousingCosts, ownerData[i].income, totalGrossIncome),
                 TdsAmount(
                     HousingCostShare(gdsHousingCosts, ownerData[i].income,
                                      totalGrossIncome),
                     ownerData[i].totalDebts,
                     RatDiv(rrspMonthlyRepayment, RatOf(Len(ownerData))))) ]

\* updateAffordabilityBars(data): the housing cost bar and the cards
updateAffordabilityBars(data) ==
    IF ~RatIsPos(data.totalGrossIncome)
    THEN [ housingCost |-> [percent |-> RatZero, status |-> "-"],
           perPersonRatios |-> << >> ]
    ELSE [ housingCost |->
               [ percent |->
                     RatMul(RatDiv(data.totalMonthlyCosts, data.totalGrossIncome),
                            RatOf(100)),
                 status |->
                     HousingCostStatus(
                         RatMul(RatDiv(data.totalMonthlyCosts, data.totalGrossIncome),
                                RatOf(100))) ],
           perPersonRatios |->
               updatePerPersonRatios(data.ownerData, data.totalGrossIncome,
                   RatPlus(RatPlus(data.mortgagePayment, data.propertyTax), data.heating),
                   data.rrspMonthlyRepayment) ]

\* carLoan + studentLoan + personalLoan + creditCard
TotalDebts(carLoan, studentLoan, personalLoan, creditCard) ==
    RatPlus(RatPlus(RatPlus(carLoan, studentLoan), personalLoan), creditCard)

\* the entry calculate() pushes on ownerData for one member
OwnerEntry(name, income, carLoan, studentLoan, personalLoan, creditCard) ==
    [ name |-> name,
      income |-> income,
      totalDebts |-> TotalDebts(carLoan, studentLoan, personalLoan, creditCard),
      carLoan |-> carLoan,
      studentLoan |-> studentLoan,
      personalLoan |-> personalLoan,
      creditCard |-> creditCard ]

\* the incomes of ownerData, as a sequence
IncomesOf(ownerData) == [i \in DOMAIN ownerData |-> ownerData[i].income]
DebtsOf(ownerData) == [i \in DOMAIN ownerData |-> ownerData[i].totalDebts]

\* the data calculate() hands to updateAffordabilityBars: the monthly costs,
\* the income and debts summed over ownerData
AffordabilityData(totalMonthlyLoanPayment, insurance, electricity, upkeep, cityTaxesMonthly, ownerData, rrspMonthlyRepayment) ==
    [ totalMonthlyCosts |->
          RatPlus(RatPlus(RatPlus(RatPlus(totalMonthlyLoanPayment, insurance),
                                  electricity), upkeep), cityTaxesMonthly),
      totalGrossIncome |-> RatSum(IncomesOf(ownerData), 1, Len(ownerData)),
      mortgagePayment |-> totalMonthlyLoanPayment,
      propertyTax |-> cityTaxesMonthly,
      heating |-> electricity,
      otherDebtPayments |-> RatSum(DebtsOf(ownerData), 1, Len(ownerData)),
      ownerData |-> ownerData,
      rrspMonthlyRepayment |-> rrspMonthlyRepayment ]

(***************************************************************************)
(* CHARTS: the amortization schedules of updateChart and updateEquityChart *)
(***************************************************************************)
\* const maxMonths = 360 of updateChart, const maxYears = 30 of updateEquityChart
maxMonths == 360
maxYears == 30

\* the principal portion of a month taken whole, not capped at the balance
PrincipalPortion_Uncapped(monthlyPayment, interestPortion, remainingBalance) ==
    RatMinus(monthlyPayment, interestPortion)

\* Math.min(monthlyPayment - interestPortion, remainingBalance)
PrincipalPortion(monthlyPayment, interestPortion, remainingBalance) ==
    RatMin(RatMinus(monthlyPayment, interestPortion), remainingBalance)

\* one month of the schedule of updateChart for a balance above zero
ChartMonth(loan, acc, interestPortion) ==
    [ remainingBalance |->
          RatMinus(acc.remainingBalance,
                   PrincipalPortion(loan.monthlyPayment, interestPortion,
                                    acc.remainingBalance)),
      principalData |->
          Append(acc.principalData,
                 PrincipalPortion(loan.monthlyPayment, interestPortion,
                                  acc.remainingBalance)),
      interestData |-> Append(acc.interestData, interestPortion) ]

\* the number of turns of for (let month = 0; month < limit; month++)
Turns(limit) == IF limit.n <= 0 THEN 0 ELSE (limit.n + limit.d - 1) \div limit.d

\* one turn of the for loop of updateChart
ChartTurn(loan, acc) ==
    IF RatIsPos(acc.remainingBalance) /\ RatIsPos(loan.monthlyPayment)
    THEN ChartMonth(loan, acc, RatMul(acc.remainingBalance, MonthlyRate(loan.rate)))
    ELSE [acc EXCEPT !.principalData = Append(@, RatZero),
                     !.interestData = Append(@, RatZero)]

\* the for loop of updateChart over one loan: the turns for the months
\* month, ..., until - 1 in that order.  No turn reads the month, so the
\* turns of the second half of the months are taken on what the first
\* half leaves.
RECURSIVE ChartLoop(_, _, _, _)
ChartLoop(loan, month, until, acc) ==
    IF month >= until THEN acc
    ELSE IF month + 1 = until THEN ChartTurn(loan, acc)
    ELSE CHOOSE after \in
             { ChartLoop(loan, (month + until) \div 2, until, half) :
                 half \in {ChartLoop(loan, month, (month + until) \div 2, acc)} } : TRUE

\* new Array(maxMonths).fill(0) with the first entries those of `data`
FilledTo(data, length) ==
    [m \in 1..length |-> IF m <= Len(data) THEN data[m] ELSE RatZero]

\* the schedule updateChart computes for one loan: its principalData, what
\* it adds to interestData and the remainingBalance the loop ends with
ChartSchedule(loan) ==
    ChartLoop(loan, 0, Turns(RatMin(loan.termMonths, RatOf(maxMonths))),
        [remainingBalance |-> loan.amount, principalData |-> << >>,
         interestData |-> << >>])

\* one turn of the inner for loop of updateEquityChart
EquityTurn(loan, remainingBalance) ==
    IF RatIsPos(remainingBalance)
    THEN RatMinus(remainingBalance,
             PrincipalPortion(loan.monthlyPayment,
                 RatMul(remainingBalance, MonthlyRate(loan.rate)),
                 remainingBalance))
    ELSE remainingBalance

\* the balance updateEquityChart computes for one loan by the turns for
\* the months month, ..., until - 1 in that order
RECURSIVE EquityLoop(_, _, _, _)
EquityLoop(loan, month, until, remainingBalance) ==
    IF month >= until THEN remainingBalance
    ELSE IF month + 1 = until THEN EquityTurn(loan, remainingBalance)
    ELSE CHOOSE after \in
             { EquityLoop(loan, (month + until) \div 2, until, half) :
                 half \in {EquityLoop(loan, month, (month + until) \div 2,
                                      remainingBalance)} } : TRUE

\* what one loan adds to totalRemainingDebt at the end of `year`
RemainingDebtOf(loan, year) ==
    IF RatIsPos(loan.amount) /\ RatIsPos(loan.monthlyPayment)
    THEN RatMax(RatZero,
             EquityLoop(loan, 0, Turns(RatMin(RatOf(year * 12), loan.termMonths)),
                        loan.amount))
    ELSE RatZero

\* the remaining debt of the first loan alone, the other loans left out
TotalRemainingDebt_FirstLoan(loanPaymentDetails, year, i) ==
    IF i > Len(loanPaymentDetails) THEN RatZero
    ELSE RemainingDebtOf(loanPaymentDetails[i], year)

\* totalRemainingDebt at the end of `year`, over the loans from index i on
RECURSIVE TotalRemainingDebt(_, _, _)
TotalRemainingDebt(loanPaymentDetails, year, i) ==
    IF i > Len(loanPaymentDetails) THEN RatZero
    ELSE RatPlus(RemainingDebtOf(loanPaymentDetails[i], year),
                 TotalRemainingDebt(loanPaymentDetails, year, i + 1))

\* the series of updateEquityChart given its remainingDebtData
EquityData(propertyValue, remainingDebtData) ==
    [ remainingDebtData |-> remainingDebtData,
      equityData |->
          [y \in DOMAIN remainingDebtData |->
              RatMinus(propertyValue, remainingDebtData[y])],
      propertyValueData |-> [y \in DOMAIN remainingDebtData |-> propertyValue] ]

\* updateEquityChart(data): the series of the chart, index 1 for year 0
updateEquityChart(propertyValue, loanPaymentDetails) ==
    EquityData(propertyValue,
        [y \in 1..(maxYears + 1) |-> TotalRemainingDebt(loanPaymentDetails, y - 1, 1)])

\* what one loan adds to interestData[month], over the schedules from i on
RECURSIVE InterestAt(_, _, _)
InterestAt(schedules, month, i) ==
    IF i > Len(schedules) THEN RatZero
    ELSE RatPlus(FilledTo(schedules[i].interestData, maxMonths)[month],
                 InterestAt(schedules, month, i + 1))

\* the data sets of updateChart, given the schedule of every loan; the
\* remainingBalance each loop ended with is kept beside them
ChartData(schedules) ==
    [ interestData |-> [m \in 1..maxMonths |-> InterestAt(schedules, m, 1)],
      principalDataByLoan |->
          [i \in DOMAIN schedules |-> FilledTo(schedules[i].principalData, maxMonths)],
      remainingBalance |->
          [i \in DOMAIN schedules |-> schedules[i].remainingBalance] ]

\* updateChart(data): the amortization part
updateChart(loanPaymentDetails) ==
    ChartData([i \in DOMAIN loanPaymentDetails |-> ChartSchedule(loanPaymentDetails[i])])

\* the body of the second pass of calculate() for a loan with amount > 0:
\* what it stores on the source and what it pushes to loanPaymentDetails
LoanPayment(name, sourceType, amount, rate, termMonths, payment, breakdown) ==
    [ rate |-> rate,
      termMonths |-> termMonths,
      monthlyPayment |-> payment.monthlyPayment,
      interestPortion |-> breakdown.interestPortion,
      principalPortion |-> breakdown.principalPortion,
      loanPaymentDetails |->
          IF RatIsPos(payment.monthlyPayment)
          THEN << [ name |-> name,
                    sourceType |-> sourceType,
                    interest |-> breakdown.interestPortion,
                    principal |-> breakdown.principalPortion,
                    amount |-> amount,
                    rate |-> rate,
                    termMonths |-> termMonths,
                    monthlyPayment |-> payment.monthlyPayment ] >>
          ELSE << >> ]

LoanPass(name, sourceType, amount, rate, termMonths) ==
    LoanPayment(name, sourceType, amount, rate, termMonths,
        calculateMonthlyPayment(amount, rate, termMonths),
        calculatePaymentBreakdown(amount, rate,
            calculateMonthlyPayment(amount, rate, termMonths).monthlyPayment))

(***************************************************************************)
(* STATE                                                                   *)
(***************************************************************************)
VARIABLES
    financingSources,  \* the financingSources array: a source record or NULL per index
    amountInputs,      \* the page's financing-amount-<index>, financing-rate-<index>
                       \* and financing-term-<index> fields of each index
    owners,            \* the owners array: a member record or NULL per index,
                       \* with the member's owner-income-<index> field
    renovations,       \* the renovations array: an item record or NULL per index
    offerPrice,        \* the offerPrice field, as getInputValue reads it
    downPaymentInput,  \* the downPayment field: a plain number, in 1/4000ths
    downPaymentMode,   \* 'amount' or 'percent'
    is30Year,          \* the is30Year checkbox
    storage,           \* localStorage[STORAGE_KEY]: the saved data, or NoData
    warnings,          \* the warnings array
    cmhc,              \* the result of the latest calculateCmhc call
    pass,              \* what the latest calculate() pass computed (its locals)
    steps,             \* user operations so far
    alertShown,        \* the text of the alert() of the latest handler, "" for none
    callArgs,          \* the arguments of a calculation function called on its own
    callResult         \* what that call returned

vars == << financingSources, amountInputs, owners, renovations, offerPrice,
           downPaymentInput, downPaymentMode, is30Year, storage, warnings, cmhc, pass,
           steps, alertShown, callArgs, callResult >>

\* a removed array slot; a removed page element
NULL == [isNull |-> TRUE]
IsNull(x) == "isNull" \in DOMAIN x

NoData == [noData |-> TRUE]
HasData(d) == "offerPrice" \in DOMAIN d

\* no function called on its own; a call that has not returned
NoCall == [none |-> TRUE]
HasReturned(r) == "none" \notin DOMAIN r

NoCmhc == [none |-> TRUE]
HasCmhc(c) == "ltv" \in DOMAIN c

\* the arguments addFinancingSource gets when called without options or savedData
NoSaved == [amount |-> 0, rate |-> 0, termMonths |-> RatZero,
            isAutoFillMortgage |-> FALSE, isAutoCalculated |-> FALSE,
            byCalculator |-> FALSE]

\* the savedData addOwner gets when called without it
NoSavedOwner == [income |-> 0, carLoanPayment |-> 0, studentLoanPayment |-> 0,
                 personalLoanPayment |-> 0, creditCardPayment |-> 0]

Present(arr) == {i \in DOMAIN arr : ~IsNull(arr[i])}

\* Array.prototype.findIndex, given the set of indices whose entry matches:
\* the first of them; 0 stands for -1
FindIndex(matching) ==
    IF matching = {} THEN 0
    ELSE CHOOSE i \in matching : \A j \in matching : i <= j

(***************************************************************************)
(* Down payment                                                            *)
(***************************************************************************)
\* a field value (a number in 1/4000ths) read as dollars, in money units
AsMoney(v) == v

\* (inputValue / 100) * offerPrice, the field read as a percentage
PercentOf(v, price) == MulFrac(price, v, 100 * Dollar)

getDownPaymentAmount(price, inputValue, mode) ==
    IF mode = "percent" THEN PercentOf(inputValue, price) ELSE AsMoney(inputValue)

\* ((currentValue / offerPrice) * 100).toFixed(1), as a field value
PercentToFixed1(cur, price) ==
    LET r == Rat(cur, price)
    IN  ((2000 * r.n + r.d) \div (2 * r.d)) * (Dollar \div 10)

(***************************************************************************)
(* DYNAMIC LIST FUNCTIONS                                                  *)
(***************************************************************************)
\* the label of a type, the default name of a source
TypeLabel(t) ==
    CASE t = "mortgage" -> "Bank Mortgage"
      [] t = "celiapp" -> "CELIAPP"
      [] t = "rrsp" -> "RRSP (Home Buyers' Plan)"
      [] t = "tfsa" -> "TFSA"
      [] t = "joint_account" -> "Joint Account"
      [] t = "parents_loan" -> "Parent's Loan"
      [] t = "other_loan" -> "Other Loan"
      [] OTHER -> "Other Savings"

\* `Person ${index + 1}`
PersonName(index) ==
    CASE index = 0 -> "Person 1"
      [] index = 1 -> "Person 2"
      [] index = 2 -> "Person 3"
      [] OTHER -> "Person N"

\* addFinancingSource(defaultName, sourceType, options, savedData) on the arrays
\* fs (sources) and dom (amount fields); options are folded into saved
addFinancingSourceTo(fs, dom, name, sourceType, saved) ==
    LET typeConfig == FINANCING_TYPES[sourceType]
        isAutoFillMortgage == saved.isAutoFillMortgage
        isAutoCalculated == saved.isAutoCalculated \/ typeConfig.isAutoCalculated
    IN  [ fs |-> Append(fs, [ \* defaultName || typeConfig.label
                              name |-> IF name = "" THEN TypeLabel(sourceType) ELSE name,
                              sourceType |-> sourceType,
                              amount |-> saved.amount,
                              rate |-> saved.rate,
                              termMonths |-> saved.termMonths,
                              \* not set by addFinancingSource: zero stands
                              \* for undefined
                              monthlyPayment |-> RatZero,
                              isAutoFillMortgage |-> isAutoFillMortgage,
                              isAutoCalculated |-> isAutoCalculated ]),
          dom |-> Append(dom, [ value |-> saved.amount,
                                rate |-> saved.rate,
                                term |-> RatDiv(saved.termMonths, RatOf(12)),
                                readonly |-> isAutoFillMortgage \/ isAutoCalculated,
                                byCalculator |-> saved.byCalculator ]) ]

\* addOwner(defaultName, savedData): the member, the income field and the
\* four debt fields owner-car-, owner-student-, owner-personal- and
\* owner-credit-<index>
addOwnerTo(os, name, saved) ==
    Append(os, [ \* defaultName || `Person ${index + 1}`
                 name |-> IF name = "" THEN PersonName(Len(os)) ELSE name,
                 income |-> saved.income,
                 carLoanPayment |-> saved.carLoanPayment,
                 studentLoanPayment |-> saved.studentLoanPayment,
                 personalLoanPayment |-> saved.personalLoanPayment,
                 creditCardPayment |-> saved.creditCardPayment,
                 incomeInput |-> saved.income,
                 debtInputs |-> [ carLoan |-> saved.carLoanPayment,
                                  studentLoan |-> saved.studentLoanPayment,
                                  personalLoan |-> saved.personalLoanPayment,
                                  creditCard |-> saved.creditCardPayment ] ])

\* addRenovation(savedDesc, savedAmount)
addRenovationTo(renos, savedDesc, savedAmount) ==
    Append(renos, [description |-> savedDesc, amount |-> savedAmount])

\* removal by splice: the later entries move down one index
removeAt_Splice(arr, i) == SubSeq(arr, 1, i - 1) \o SubSeq(arr, i + 1, Len(arr))

\* financingSources[index] = null, owners[index] = null: the slot is kept
removeAt(arr, i) == [arr EXCEPT ![i] = NULL]

\* changeFinancingType making any source of type mortgage the auto-fill one
changeTypeOf_AnyIndex(source, newType, index) ==
    [source EXCEPT !.sourceType = newType,
                   !.isAutoCalculated = FINANCING_TYPES[newType].isAutoCalculated,
                   !.isAutoFillMortgage = (newType = "mortgage")]

\* changeFinancingType(index) with newType selected, on the source itself
changeTypeOf(source, newType, index) ==
    [source EXCEPT !.sourceType = newType,
                   !.isAutoCalculated = FINANCING_TYPES[newType].isAutoCalculated,
                   !.isAutoFillMortgage = (newType = "mortgage" /\ index = 0)]

\* updateBankMortgageAmount(totalMortgage)
updateBankMortgageAmount(fs, dom, totalMortgage) ==
    LET mortgageIndex == FindIndex({i \in Present(fs) : fs[i].isAutoFillMortgage})
    IN  IF mortgageIndex = 0 THEN [fs |-> fs, dom |-> dom]
        ELSE IF totalMortgage > 0
        THEN [ fs |-> [fs EXCEPT ![mortgageIndex].amount = totalMortgage],
               dom |-> [dom EXCEPT ![mortgageIndex].value = MathRound(totalMortgage),
                                   ![mortgageIndex].byCalculator = TRUE] ]
        ELSE [ fs |-> [fs EXCEPT ![mortgageIndex].amount = 0],
               dom |-> [dom EXCEPT ![mortgageIndex].value = 0,
                                   ![mortgageIndex].byCalculator = TRUE] ]

\* a gap slot updated incrementally: the gap added to the amount the slot
\* holds from the pass before
updateParentsLoanAmount_Accumulating(fs, dom, gapAmount) ==
    LET parentsLoanIndex ==
            FindIndex({i \in Present(fs) : fs[i].isAutoCalculated
                                           /\ fs[i].sourceType = "parents_loan"})
    IN  IF parentsLoanIndex = 0 \/ gapAmount <= 0 THEN [fs |-> fs, dom |-> dom]
        ELSE [ fs |-> [fs EXCEPT ![parentsLoanIndex].amount = @ + gapAmount],
               dom |-> [dom EXCEPT ![parentsLoanIndex].value = @ + MathRound(gapAmount),
                                   ![parentsLoanIndex].byCalculator = TRUE] ]

\* updateParentsLoanAmount(gapAmount)
updateParentsLoanAmount(fs, dom, gapAmount) ==
    LET parentsLoanIndex ==
            FindIndex({i \in Present(fs) : fs[i].isAutoCalculated
                                           /\ fs[i].sourceType = "parents_loan"})
    IN  IF parentsLoanIndex = 0 THEN [fs |-> fs, dom |-> dom]
        ELSE IF gapAmount > 0
        THEN [ fs |-> [fs EXCEPT ![parentsLoanIndex].amount = gapAmount],
               dom |-> [dom EXCEPT ![parentsLoanIndex].value = MathRound(gapAmount),
                                   ![parentsLoanIndex].byCalculator = TRUE] ]
        ELSE [ fs |-> [fs EXCEPT ![parentsLoanIndex].amount = 0],
               dom |-> [dom EXCEPT ![parentsLoanIndex].value = 0,
                                   ![parentsLoanIndex].byCalculator = TRUE] ]

(***************************************************************************)
(* calculate()                                                             *)
(***************************************************************************)
\* the first pass reading the auto-fill mortgage from its (rounded) field
ReadAmount_FromField(source, field) ==
    IF FINANCING_TYPES[source.sourceType].isAutoCalculated THEN 0
    ELSE field.value

\* the amount the first pass takes for a source: 0 for an auto-calculated
\* type, source.amount for the auto-fill mortgage, else the amount field
ReadAmount(source, field) ==
    IF FINANCING_TYPES[source.sourceType].isAutoCalculated THEN 0
    ELSE IF source.isAutoFillMortgage THEN source.amount
    ELSE field.value

\* the first pass counting every amount above zero, whatever the type's
\* countsTowardDownPayment flag
CountsAsSavings_AnyType(sourceType, amount) ==
    /\ ~FINANCING_TYPES[sourceType].isAutoCalculated
    /\ amount > 0

\* whether the first pass adds this amount to totalSavingsForDownPayment
CountsAsSavings(sourceType, amount) ==
    /\ FINANCING_TYPES[sourceType].countsTowardDownPayment
    /\ ~FINANCING_TYPES[sourceType].isAutoCalculated
    /\ amount > 0

\* the first pass warning from the ceiling on, not above it
SourceWarnings_AtCeiling(sourceType, amount) ==
    IF ~CountsAsSavings(sourceType, amount) THEN << >>
    ELSE (IF sourceType = "rrsp" /\ amount >= RRSP_MAX_WITHDRAWAL
          THEN << [type |-> "warning", source |-> "RRSP"] >> ELSE << >>)
         \o
         (IF sourceType = "celiapp" /\ amount >= CELIAPP_MAX_CONTRIBUTION
          THEN << [type |-> "warning", source |-> "CELIAPP"] >> ELSE << >>)

\* the warnings the first pass pushes for one source
SourceWarnings(sourceType, amount) ==
    IF ~CountsAsSavings(sourceType, amount) THEN << >>
    ELSE (IF sourceType = "rrsp" /\ amount > RRSP_MAX_WITHDRAWAL
          THEN << [type |-> "warning", source |-> "RRSP"] >> ELSE << >>)
         \o
         (IF sourceType = "celiapp" /\ amount > CELIAPP_MAX_CONTRIBUTION
          THEN << [type |-> "warning", source |-> "CELIAPP"] >> ELSE << >>)

\* the first forEach of calculate(), from index i on; acc holds the sources,
\* totalSavingsForDownPayment and the warnings so far
RECURSIVE FirstPass(_, _, _)
FirstPass(dom, i, acc) ==
    IF i > Len(acc.fs) THEN acc
    ELSE IF IsNull(acc.fs[i]) THEN FirstPass(dom, i + 1, acc)
    ELSE LET source == acc.fs[i]
             amount == ReadAmount(source, dom[i])
         IN  FirstPass(dom, i + 1,
                 [ fs |-> [acc.fs EXCEPT ![i].amount = amount],
                   totalSavingsForDownPayment |->
                       acc.totalSavingsForDownPayment
                       + (IF CountsAsSavings(source.sourceType, amount) THEN amount ELSE 0),
                   warnings |-> acc.warnings \o SourceWarnings(source.sourceType, amount) ])

\* Math.max(0, downPayment - totalSavingsForDownPayment)
DownPaymentGap(downPayment, totalSavingsForDownPayment) ==
    Max(0, downPayment - totalSavingsForDownPayment)

\* renovations.reduce((sum, r) => sum + (r.amount || 0), 0) over an array
\* without a null, from index i on
RECURSIVE TotalRenovations(_, _)
TotalRenovations(renos, i) ==
    IF i > Len(renos) THEN 0
    ELSE renos[i].amount + TotalRenovations(renos, i + 1)

\* whether the reduce raises a TypeError: it reads r.amount of every entry,
\* and a removed entry is null
ReduceRaises(renos) == \E i \in DOMAIN renos : IsNull(renos[i])

\* totalOneTime: the welcome tax and the renovations; the notary fees, the
\* moving costs and the paint are fields this model leaves empty
TotalOneTime(price, renos) ==
    calculateWelcomeTax(price, Dollar).totalTax + TotalRenovations(renos, 1)

\* (amount / 15) / 12
RrspRepaymentOf(amount) == RatDiv(RatDiv(RatOf(amount), RatOf(15)), RatOf(12))

\* the loan branch of the second pass on source i, given what LoanPass
\* computed for it
LoanTurn(acc, i, rate, loan) ==
    [ fs |-> [acc.fs EXCEPT ![i].rate = rate,
                            ![i].termMonths = loan.termMonths,
                            ![i].monthlyPayment = loan.monthlyPayment],
      loanPaymentDetails |-> acc.loanPaymentDetails \o loan.loanPaymentDetails,
      totalMonthlyLoanPayment |->
          IF RatIsPos(loan.monthlyPayment)
          THEN RatPlus(acc.totalMonthlyLoanPayment, loan.monthlyPayment)
          ELSE acc.totalMonthlyLoanPayment,
      rrspMonthlyRepayment |-> acc.rrspMonthlyRepayment ]

\* the second forEach of calculate(), from index i on; acc holds the
\* sources, loanPaymentDetails, totalMonthlyLoanPayment and
\* rrspMonthlyRepayment so far
RECURSIVE SecondPass(_, _, _)
SecondPass(dom, i, acc) ==
    IF i > Len(acc.fs) THEN acc
    ELSE IF IsNull(acc.fs[i]) THEN SecondPass(dom, i + 1, acc)
    ELSE IF FINANCING_TYPES[acc.fs[i].sourceType].isLoan /\ acc.fs[i].amount > 0
    THEN SecondPass(dom, i + 1,
             LoanTurn(acc, i, dom[i].rate,
                 LoanPass(acc.fs[i].name, acc.fs[i].sourceType, RatOf(acc.fs[i].amount),
                          RatOf(dom[i].rate), RatMul(dom[i].term, RatOf(12)))))
    ELSE IF acc.fs[i].sourceType = "rrsp" /\ acc.fs[i].amount > 0
    THEN SecondPass(dom, i + 1,
             [acc EXCEPT !.rrspMonthlyRepayment = RrspRepaymentOf(acc.fs[i].amount)])
    ELSE SecondPass(dom, i + 1, acc)

\* owners.forEach of calculate(): owner.income = the income field
HouseholdOwners(os) ==
    [i \in DOMAIN os |->
        IF IsNull(os[i]) THEN NULL
        ELSE [os[i] EXCEPT !.income = os[i].incomeInput,
                           !.carLoanPayment = os[i].debtInputs.carLoan,
                           !.studentLoanPayment = os[i].debtInputs.studentLoan,
                           !.personalLoanPayment = os[i].debtInputs.personalLoan,
                           !.creditCardPayment = os[i].debtInputs.creditCard]]

\* ownerData, from index i on
RECURSIVE OwnerData(_, _)
OwnerData(os, i) ==
    IF i > Len(os) THEN << >>
    ELSE IF IsNull(os[i]) THEN OwnerData(os, i + 1)
    ELSE << OwnerEntry(os[i].name, RatOf(os[i].incomeInput),
                       RatOf(os[i].debtInputs.carLoan),
                       RatOf(os[i].debtInputs.studentLoan),
                       RatOf(os[i].debtInputs.personalLoan),
                       RatOf(os[i].debtInputs.creditCard)) >>
         \o OwnerData(os, i + 1)

\* what a calculate() that raised leaves: the arrays after
\* updateBankMortgageAmount and the insurance record
Raised(a, ins) ==
    [raised |-> TRUE, fs |-> a.fs, dom |-> a.dom, cmhc |-> ins]

\* the end of the pass: c holds the arrays after updateParentsLoanAmount, b the
\* results of the first pass, ins the insurance record, s the results of the
\* second pass
PassResult(c, b, ins, downPayment, downPaymentGap, page, s) ==
    [ raised |-> FALSE,
      fs |-> s.fs,
      dom |-> c.dom,
      os |-> HouseholdOwners(page.owners),
      warnings |-> b.warnings,
      cmhc |-> ins,
      pass |-> [ fresh |-> TRUE,
                 raised |-> FALSE,
                 downPayment |-> downPayment,
                 totalSavingsForDownPayment |-> b.totalSavingsForDownPayment,
                 downPaymentGap |-> downPaymentGap,
                 totalRenovations |-> TotalRenovations(page.renovations, 1),
                 totalOneTime |-> TotalOneTime(page.offerPrice, page.renovations),
                 loanPaymentDetails |-> s.loanPaymentDetails,
                 totalMonthlyLoanPayment |-> s.totalMonthlyLoanPayment,
                 rrspMonthlyRepayment |-> s.rrspMonthlyRepayment,
                 bars |->
                     updateAffordabilityBars(
                         AffordabilityData(s.totalMonthlyLoanPayment, RatZero, RatZero,
                             RatZero, RatZero, OwnerData(page.owners, 1),
                             s.rrspMonthlyRepayment)) ] ]

\* after updateParentsLoanAmount left the arrays c: the second pass over them
SecondStage(c, b, ins, downPayment, downPaymentGap, page) ==
    PassResult(c, b, ins, downPayment, downPaymentGap, page,
        SecondPass(c.dom, 1,
            [fs |-> c.fs, loanPaymentDetails |-> << >>,
             totalMonthlyLoanPayment |-> RatZero, rrspMonthlyRepayment |-> RatZero]))

\* after the first pass: the gap, then updateParentsLoanAmount(downPaymentGap)
GapStage(a, b, ins, downPayment, page) ==
    SecondStage(updateParentsLoanAmount(b.fs, a.dom,
                    DownPaymentGap(downPayment, b.totalSavingsForDownPayment)),
                b, ins, downPayment,
                DownPaymentGap(downPayment, b.totalSavingsForDownPayment), page)

\* after the renovations were totalled: the first pass over the arrays a
SourcesStage(a, ins, downPayment, page) ==
    GapStage(a,
             FirstPass(a.dom, 1,
                 [fs |-> a.fs, totalSavingsForDownPayment |-> 0, warnings |-> << >>]),
             ins, downPayment, page)

\* after updateBankMortgageAmount left the arrays a: the renovations total,
\* where calculate() raises when an item was removed
RenovationsStage(a, ins, downPayment, page) ==
    IF ReduceRaises(page.renovations) THEN Raised(a, ins)
    ELSE SourcesStage(a, ins, downPayment, page)

\* after calculateCmhc returned ins: updateBankMortgageAmount(cmhc.totalMortgage)
MortgageStage(fs, dom, ins, downPayment, page) ==
    RenovationsStage(updateBankMortgageAmount(fs, dom, ins.totalMortgage), ins,
                     downPayment, page)

\* calculate() on the given arrays and fields: whether it raised, the new
\* arrays, the warnings, the insurance record and the locals of the pass
calculate(fs, dom, os, renos, price, dpInput, mode, thirty) ==
    MortgageStage(fs, dom,
                  calculateCmhc(price, getDownPaymentAmount(price, dpInput, mode), thirty),
                  getDownPaymentAmount(price, dpInput, mode),
                  [owners |-> os, renovations |-> renos, offerPrice |-> price])

(***************************************************************************)
(* LOCAL STORAGE FUNCTIONS                                                 *)
(***************************************************************************)
RECURSIVE SavedSources(_, _, _)
SavedSources(fs, dom, i) ==
    IF i > Len(fs) THEN << >>
    ELSE IF IsNull(fs[i]) THEN SavedSources(fs, dom, i + 1)
    ELSE << [ name |-> fs[i].name,
              sourceType |-> fs[i].sourceType,
              amount |-> fs[i].amount,
              rate |-> fs[i].rate,
              termMonths |-> fs[i].termMonths,
              isAutoFillMortgage |-> fs[i].isAutoFillMortgage,
              isAutoCalculated |-> fs[i].isAutoCalculated,
              \* not stored by the program: whether the amount is the calculator's
              byCalculator |-> dom[i].byCalculator ] >>
         \o SavedSources(fs, dom, i + 1)

RECURSIVE SavedOwners(_, _)
SavedOwners(os, i) ==
    IF i > Len(os) THEN << >>
    ELSE IF IsNull(os[i]) THEN SavedOwners(os, i + 1)
    ELSE << [ name |-> os[i].name,
              income |-> os[i].income,
              carLoanPayment |-> os[i].carLoanPayment,
              studentLoanPayment |-> os[i].studentLoanPayment,
              personalLoanPayment |-> os[i].personalLoanPayment,
              creditCardPayment |-> os[i].creditCardPayment ] >>
         \o SavedOwners(os, i + 1)

\* renovations.filter(r => r !== null).map(...)
RECURSIVE SavedRenovations(_, _)
SavedRenovations(renos, i) ==
    IF i > Len(renos) THEN << >>
    ELSE IF IsNull(renos[i]) THEN SavedRenovations(renos, i + 1)
    ELSE << [description |-> renos[i].description, amount |-> renos[i].amount] >>
         \o SavedRenovations(renos, i + 1)

\* the data object saveToStorage() stores; the fields of the page this
\* model does not hold are empty and stored as 0
saveToStorage(fs, dom, os, renos, price, dpInput, mode, thirty) ==
    [ offerPrice |-> price,
      downPayment |-> dpInput,
      downPaymentMode |-> mode,
      is30Year |-> thirty,
      financingSources |-> SavedSources(fs, dom, 1),
      owners |-> SavedOwners(os, 1),
      renovations |-> SavedRenovations(renos, 1) ]

\* the data object exportToJson() writes, without exportedAt and version
exportToJson(fs, dom, os, renos, price, dpInput, mode, thirty) ==
    saveToStorage(fs, dom, os, renos, price, dpInput, mode, thirty)

\* whether a stored list holds null where an entry is expected, as a file
\* edited by hand can
HasNullEntry(saved) == \E i \in DOMAIN saved : IsNull(saved[i])

\* whether loadFromStorage(data) raises inside its try block and returns
\* false from its catch: source.name, owner.income and reno.description
\* raise on a null entry
LoadRaises(data) ==
    \/ HasNullEntry(data.financingSources)
    \/ HasNullEntry(data.owners)
    \/ HasNullEntry(data.renovations)

\* data.financingSources.forEach(source => addFinancingSource(...)); the
\* forEach ends at a null entry, the entries before it added
RECURSIVE LoadSources(_, _, _)
LoadSources(saved, i, acc) ==
    IF i > Len(saved) THEN acc
    ELSE IF IsNull(saved[i]) THEN acc
    ELSE LoadSources(saved, i + 1,
             addFinancingSourceTo(acc.fs, acc.dom, saved[i].name, saved[i].sourceType, saved[i]))

RECURSIVE LoadOwners(_, _, _)
LoadOwners(saved, i, acc) ==
    IF i > Len(saved) THEN acc
    ELSE IF IsNull(saved[i]) THEN acc
    ELSE LoadOwners(saved, i + 1, addOwnerTo(acc, saved[i].name, saved[i]))

\* data.renovations.forEach(reno => addRenovation(reno.description, reno.amount))
RECURSIVE LoadRenovations(_, _, _)
LoadRenovations(saved, i, acc) ==
    IF i > Len(saved) THEN acc
    ELSE IF IsNull(saved[i]) THEN acc
    ELSE LoadRenovations(saved, i + 1,
             addRenovationTo(acc, saved[i].description, saved[i].amount))

EmptyLists == [fs |-> << >>, dom |-> << >>]

\* the six default sources of the DOMContentLoaded handler
RECURSIVE SeedSources(_, _, _)
SeedSources(seeds, i, acc) ==
    IF i > Len(seeds) THEN acc
    ELSE SeedSources(seeds, i + 1,
             addFinancingSourceTo(acc.fs, acc.dom, seeds[i].name, seeds[i].sourceType,
                 [NoSaved EXCEPT !.isAutoFillMortgage = seeds[i].isAutoFillMortgage,
                                 !.isAutoCalculated = seeds[i].isAutoCalculated]))

DefaultSeeds ==
    << [name |-> "Bank Mortgage", sourceType |-> "mortgage",
        isAutoFillMortgage |-> TRUE, isAutoCalculated |-> FALSE],
       [name |-> "CELIAPP", sourceType |-> "celiapp",
        isAutoFillMortgage |-> FALSE, isAutoCalculated |-> FALSE],
       [name |-> "RRSP", sourceType |-> "rrsp",
        isAutoFillMortgage |-> FALSE, isAutoCalculated |-> FALSE],
       [name |-> "TFSA", sourceType |-> "tfsa",
        isAutoFillMortgage |-> FALSE, isAutoCalculated |-> FALSE],
       [name |-> "Joint Account", sourceType |-> "joint_account",
        isAutoFillMortgage |-> FALSE, isAutoCalculated |-> FALSE],
       [name |-> "Parent's Loan", sourceType |-> "parents_loan",
        isAutoFillMortgage |-> FALSE, isAutoCalculated |-> TRUE] >>

\* the fallback of loadFromStorage when no sources were saved
FallbackSeeds == << DefaultSeeds[1] >>

\* loadFromStorage() on a fresh page, for stored data that parses: the
\* fields and lists it leaves, also when it raised on the way (LoadRaises)
\* and left the later lists alone.  A fresh page has empty fields, the
\* amount mode and empty lists; a falsy saved value leaves its field as it
\* is.
loadFromStorage(data) ==
    LET lists == IF Len(data.financingSources) > 0
                 THEN LoadSources(data.financingSources, 1, EmptyLists)
                 ELSE SeedSources(FallbackSeeds, 1, EmptyLists)
    IN  [ fs |-> lists.fs,
          dom |-> lists.dom,
          owners |-> IF HasNullEntry(data.financingSources) THEN << >>
                     ELSE IF Len(data.owners) > 0 THEN LoadOwners(data.owners, 1, << >>)
                     ELSE addOwnerTo(<< >>, PersonName(0), NoSavedOwner),
          renovations |-> IF HasNullEntry(data.financingSources)
                             \/ HasNullEntry(data.owners)
                          THEN << >>
                          ELSE LoadRenovations(data.renovations, 1, << >>),
          offerPrice |-> data.offerPrice,
          downPaymentInput |-> data.downPayment,
          downPaymentMode |-> data.downPaymentMode,
          is30Year |-> data.is30Year ]

\* the default branch of the DOMContentLoaded handler (nothing stored)
defaultSeeding ==
    LET lists == SeedSources(DefaultSeeds, 1, EmptyLists)
    IN  [ fs |-> lists.fs,
          dom |-> lists.dom,
          owners |-> addOwnerTo(<< >>, PersonName(0), NoSavedOwner),
          renovations |-> << >>,
          offerPrice |-> 0,
          downPaymentInput |-> 0,
          downPaymentMode |-> "amount",
          is30Year |-> FALSE ]

\* the default branch of the DOMContentLoaded handler taken after
\* loadFromStorage() returned false from its catch, on the page p it left
defaultSeedingOnto(p) ==
    LET lists == SeedSources(DefaultSeeds, 1, [fs |-> p.fs, dom |-> p.dom])
    IN  [p EXCEPT !.fs = lists.fs,
                  !.dom = lists.dom,
                  !.owners = addOwnerTo(p.owners, PersonName(0), NoSavedOwner)]

\* the DOMContentLoaded handler up to, not including, its calculate()
pageLoad(data) ==
    IF ~HasData(data) THEN defaultSeeding
    ELSE IF LoadRaises(data) THEN defaultSeedingOnto(loadFromStorage(data))
    ELSE loadFromStorage(data)

(***************************************************************************)
(* Inputs the model draws.                                                 *)
(***************************************************************************)
\* purchase prices typed into the offerPrice field
PriceChoices == {20 * K10}
\* down payments typed in amount mode: none, 10%, 20% and more than the price
DownChoices == {0, 2 * K10, 4 * K10, MaxDown * K10}
\* down payments typed in percent mode: 0, 10 and 110 percent
PercentChoices == {0, 10 * Dollar, 110 * Dollar}
\* amounts typed into a source's amount field: negative, cleared, below and
\* above the program ceilings
AmountChoices == {0 - K10, 0, K10, 7 * K10}
\* types picked in a source's type selector: a loan that is no saving, two
\* savings and the auto-calculated loan
TypeChoices == {"mortgage", "rrsp", "tfsa", "parents_loan"}

\* rates typed into a loan's rate field, in percent a year
RateChoices == {0, 600}
\* terms typed into a loan's term field, in years: cleared and one month
TermChoices == {RatZero, Rat(1, 12)}
\* monthly incomes typed into a member's income field
IncomeChoices == {0, K10}
\* amounts typed into a renovation's amount field
\* the monthly payment typed into each debt field: 100, 200, 300 and 400
\* dollars
DebtChoices ==
    [carLoan |-> 100 * Dollar, studentLoan |-> 200 * Dollar,
     personalLoan |-> 300 * Dollar, creditCard |-> 400 * Dollar]
DebtFields == DOMAIN DebtChoices

\* a name field cleared, or a name typed into it
NameChoices == {"", "Savings"}
OwnerNameChoices == {"", "Alex"}
\* the lists of the stored data
SavedLists == {"financingSources", "owners", "renovations"}

RenovationChoices == {0, K10}

(***************************************************************************)
(* Operations.  Each is a whole handler: where the page's handler runs     *)
(* calculate() and saveToStorage() after the change, so does the action.   *)
(***************************************************************************)
\* the state after `calculate(); saveToStorage()` on the given lists and
\* fields; a calculate() that raises ends the handler, and what it had
\* written stays
Recalculated(fs, dom, os, renos, price, dpInput, mode, thirty, save) ==
    \E r \in {calculate(fs, dom, os, renos, price, dpInput, mode, thirty)} :
        /\ financingSources' = r.fs
        /\ amountInputs' = r.dom
        /\ owners' = IF r.raised THEN os ELSE r.os
        /\ renovations' = renos
        /\ offerPrice' = price
        /\ downPaymentInput' = dpInput
        /\ downPaymentMode' = mode
        /\ is30Year' = thirty
        /\ warnings' = IF r.raised THEN warnings ELSE r.warnings
        /\ cmhc' = r.cmhc
        /\ pass' = IF r.raised THEN [pass EXCEPT !.fresh = FALSE, !.raised = TRUE]
                   ELSE r.pass
        /\ storage' = IF save /\ ~r.raised
                      THEN saveToStorage(r.fs, r.dom, r.os, renos, price, dpInput, mode,
                                         thirty)
                      ELSE storage

\* the page loaded with nothing stored, then the price, the down payment and
\* the amortization option entered (each input runs calculate() and
\* saveToStorage())
Init ==
    \E price \in PriceChoices, down \in DownChoices, thirty \in BOOLEAN :
        \E p \in {defaultSeeding} :
        \E r \in {calculate(p.fs, p.dom, p.owners, p.renovations, price, down,
                            p.downPaymentMode, thirty)} :
            /\ financingSources = r.fs
            /\ amountInputs = r.dom
            /\ owners = r.os
            /\ renovations = p.renovations
            /\ offerPrice = price
            /\ downPaymentInput = down
            /\ downPaymentMode = p.downPaymentMode
            /\ is30Year = thirty
            /\ warnings = r.warnings
            /\ cmhc = r.cmhc
            /\ pass = r.pass
            /\ storage = saveToStorage(r.fs, r.dom, r.os, p.renovations, price, down,
                                       p.downPaymentMode, thirty)
            /\ steps = 0
            /\ alertShown = ""
            /\ callArgs = NoCall
            /\ callResult = NoCall

\* one more user operation
Turn ==
    /\ steps < MaxSteps
    /\ steps' = steps + 1
    /\ UNCHANGED << callArgs, callResult >>

\* a user operation whose handler shows no alert
Step ==
    /\ Turn
    /\ alertShown' = ""

\* addFinancingSource() from the page's button: a new 'Other Savings' source
AddFinancingSource ==
    /\ Step
    /\ Len(financingSources) < MaxSources
    /\ \E r \in {addFinancingSourceTo(financingSources, amountInputs,
                                      TypeLabel("other_savings"), "other_savings", NoSaved)} :
           /\ financingSources' = r.fs
           /\ amountInputs' = r.dom
    /\ pass' = [pass EXCEPT !.fresh = FALSE]
    /\ UNCHANGED << owners, renovations, offerPrice, downPaymentInput, downPaymentMode,
                    is30Year, storage, warnings, cmhc >>

\* the type selector of source i: changeFinancingType(i); calculate(); saveToStorage()
ChangeFinancingType(i, newType) ==
    /\ Step
    /\ i \in Present(financingSources)
    /\ newType # financingSources[i].sourceType
    /\ Recalculated([financingSources EXCEPT
                        ![i] = changeTypeOf(financingSources[i], newType, i - 1)],
                    amountInputs, owners, renovations, offerPrice, downPaymentInput, downPaymentMode,
                    is30Year, TRUE)

\* typing v into the amount field of source i: calculate(); saveToStorage()
OnAmountInput(i, v) ==
    /\ Step
    /\ i \in Present(financingSources)
    /\ ~amountInputs[i].readonly
    /\ v # amountInputs[i].value
    /\ Recalculated(financingSources,
                    [amountInputs EXCEPT ![i].value = v, ![i].byCalculator = FALSE],
                    owners, renovations, offerPrice, downPaymentInput, downPaymentMode,
                    is30Year, TRUE)

\* removeFinancingSource(i)
RemoveFinancingSource(i) ==
    /\ Step
    /\ i \in Present(financingSources)
    /\ Recalculated(removeAt(financingSources, i), removeAt(amountInputs, i),
                    owners, renovations, offerPrice, downPaymentInput, downPaymentMode,
                    is30Year, TRUE)

\* addOwner() from the page's button
AddOwner ==
    /\ Step
    /\ Len(owners) < MaxOwners
    /\ owners' = addOwnerTo(owners, PersonName(Len(owners)), NoSavedOwner)
    /\ pass' = [pass EXCEPT !.fresh = FALSE]
    /\ UNCHANGED << financingSources, amountInputs, renovations, offerPrice,
                    downPaymentInput, downPaymentMode, is30Year, storage, warnings, cmhc >>

\* removeOwner without its guard
KeepsLastOwner_Never(os) == FALSE

\* whether removeOwner returns at once
KeepsLastOwner(os) == Cardinality(Present(os)) <= 1

\* removeOwner(i)
RemoveOwner(i) ==
    /\ Step
    /\ i \in Present(owners)
    /\ IF KeepsLastOwner(owners)
       THEN UNCHANGED << financingSources, amountInputs, owners, renovations, offerPrice,
                         downPaymentInput, downPaymentMode, is30Year, storage,
                         warnings, cmhc, pass >>
       ELSE Recalculated(financingSources, amountInputs, removeAt(owners, i), renovations,
                         offerPrice, downPaymentInput, downPaymentMode, is30Year, TRUE)

\* typing v into the down payment field: onDownPaymentChange()
OnDownPaymentChange(v) ==
    /\ Step
    /\ v \in (IF downPaymentMode = "percent" THEN PercentChoices ELSE DownChoices)
    /\ v # downPaymentInput
    /\ Recalculated(financingSources, amountInputs, owners, renovations, offerPrice, v,
                    downPaymentMode, is30Year, TRUE)

\* the field value setDownPaymentMode(mode) leaves
ConvertedDownPayment(mode, oldMode, price, cur) ==
    IF mode = "amount"
    THEN IF oldMode = "percent" /\ price > 0 /\ cur > 0
         THEN MathRound(PercentOf(cur, price)) ELSE cur
    ELSE IF oldMode = "amount" /\ price > 0 /\ cur > 0
         THEN PercentToFixed1(cur, price) ELSE cur

\* setDownPaymentMode(mode)
SetDownPaymentMode(mode) ==
    /\ Step
    /\ Recalculated(financingSources, amountInputs, owners, renovations, offerPrice,
                    ConvertedDownPayment(mode, downPaymentMode, offerPrice, downPaymentInput),
                    mode, is30Year, TRUE)

\* the page loaded again: the DOMContentLoaded handler on a fresh page
Reload ==
    /\ Step
    /\ \E p \in {pageLoad(storage)} :
           Recalculated(p.fs, p.dom, p.owners, p.renovations, p.offerPrice,
                        p.downPaymentInput, p.downPaymentMode, p.is30Year, FALSE)

\* clearStorage(): the stored data removed, then the page loaded again
ClearStorage ==
    /\ Step
    /\ \E p \in {pageLoad(NoData)} :
       \E r \in {calculate(p.fs, p.dom, p.owners, p.renovations, p.offerPrice,
                           p.downPaymentInput, p.downPaymentMode, p.is30Year)} :
           /\ financingSources' = r.fs
           /\ amountInputs' = r.dom
           /\ owners' = r.os
           /\ renovations' = p.renovations
           /\ offerPrice' = p.offerPrice
           /\ downPaymentInput' = p.downPaymentInput
           /\ downPaymentMode' = p.downPaymentMode
           /\ is30Year' = p.is30Year
           /\ warnings' = r.warnings
           /\ cmhc' = r.cmhc
           /\ pass' = r.pass
           /\ storage' = NoData

\* typing v into the rate field of source i, shown for a loan:
\* calculate(); saveToStorage()
OnRateInput(i, v) ==
    /\ Step
    /\ i \in Present(financingSources)
    /\ FINANCING_TYPES[financingSources[i].sourceType].isLoan
    /\ v # amountInputs[i].rate
    /\ Recalculated(financingSources, [amountInputs EXCEPT ![i].rate = v],
                    owners, renovations, offerPrice, downPaymentInput, downPaymentMode,
                    is30Year, TRUE)

\* typing v into the term field of source i, shown for a loan:
\* calculate(); saveToStorage()
OnTermInput(i, v) ==
    /\ Step
    /\ i \in Present(financingSources)
    /\ FINANCING_TYPES[financingSources[i].sourceType].isLoan
    /\ v # amountInputs[i].term
    /\ Recalculated(financingSources, [amountInputs EXCEPT ![i].term = v],
                    owners, renovations, offerPrice, downPaymentInput, downPaymentMode,
                    is30Year, TRUE)

\* typing v into the income field of member i: calculate(); saveToStorage()
OnIncomeInput(i, v) ==
    /\ Step
    /\ i \in Present(owners)
    /\ v # owners[i].incomeInput
    /\ Recalculated(financingSources, amountInputs,
                    [owners EXCEPT ![i].incomeInput = v], renovations, offerPrice,
                    downPaymentInput, downPaymentMode, is30Year, TRUE)

\* typing v into one of the four debt fields of member i:
\* calculate(); saveToStorage()
OnDebtInput(i, field, v) ==
    /\ Step
    /\ i \in Present(owners)
    /\ v # owners[i].debtInputs[field]
    /\ Recalculated(financingSources, amountInputs,
                    [owners EXCEPT ![i].debtInputs[field] = v], renovations, offerPrice,
                    downPaymentInput, downPaymentMode, is30Year, TRUE)

\* addRenovation() from the page's button
AddRenovation ==
    /\ Step
    /\ Len(renovations) < MaxRenovations
    /\ renovations' = addRenovationTo(renovations, "", 0)
    /\ pass' = [pass EXCEPT !.fresh = FALSE]
    /\ UNCHANGED << financingSources, amountInputs, owners, offerPrice, downPaymentInput,
                    downPaymentMode, is30Year, storage, warnings, cmhc >>

\* typing v into the amount field of renovation i:
\* renovations[i].amount = v; calculate(); saveToStorage()
OnRenovationAmount(i, v) ==
    /\ Step
    /\ i \in Present(renovations)
    /\ v # renovations[i].amount
    /\ Recalculated(financingSources, amountInputs, owners,
                    [renovations EXCEPT ![i].amount = v], offerPrice, downPaymentInput,
                    downPaymentMode, is30Year, TRUE)

\* removeRenovation(i): renovations[i] = null; calculate(); saveToStorage()
RemoveRenovation(i) ==
    /\ Step
    /\ i \in Present(renovations)
    /\ Recalculated(financingSources, amountInputs, owners, removeAt(renovations, i),
                    offerPrice, downPaymentInput, downPaymentMode, is30Year, TRUE)

\* a file whose text is no JSON
UnparseableFile == [unparseable |-> TRUE]

ImportFailedNotice == "Failed to import JSON file. Please check the file format."

\* a JSON.parse that returns whatever the text
JsonParses_Anything(file) == TRUE

\* whether JSON.parse(e.target.result) returns rather than raises
JsonParses(file) == "unparseable" \notin DOMAIN file

\* reader.onload of importFromJson for the file read: the parsed data stored
\* as it is and the page loaded again (DOMContentLoaded with its
\* calculate()), or the alert of the catch block
Imported(file) ==
    IF JsonParses(file)
    THEN \E p \in {pageLoad(file)} :
         \E r \in {calculate(p.fs, p.dom, p.owners, p.renovations, p.offerPrice,
                             p.downPaymentInput, p.downPaymentMode, p.is30Year)} :
             /\ financingSources' = r.fs
             /\ amountInputs' = r.dom
             /\ owners' = r.os
             /\ renovations' = p.renovations
             /\ offerPrice' = p.offerPrice
             /\ downPaymentInput' = p.downPaymentInput
             /\ downPaymentMode' = p.downPaymentMode
             /\ is30Year' = p.is30Year
             /\ warnings' = r.warnings
             /\ cmhc' = r.cmhc
             /\ pass' = r.pass
             /\ storage' = file
             /\ alertShown' = ""
    ELSE /\ alertShown' = ImportFailedNotice
         /\ UNCHANGED << financingSources, amountInputs, owners, renovations,
                         offerPrice, downPaymentInput, downPaymentMode, is30Year,
                         storage, warnings, cmhc, pass >>

\* exportToJson() and importFromJson(event) with the exported file
ImportFromJson ==
    /\ Turn
    /\ Imported(exportToJson(financingSources, amountInputs, owners, renovations,
                             offerPrice, downPaymentInput, downPaymentMode, is30Year))

\* the name field of source i changed to v:
\* financingSources[i].name = this.value; saveToStorage()
OnNameChange(i, v) ==
    /\ Step
    /\ i \in Present(financingSources)
    /\ v # financingSources[i].name
    /\ financingSources' = [financingSources EXCEPT ![i].name = v]
    /\ storage' = saveToStorage([financingSources EXCEPT ![i].name = v], amountInputs,
                                owners, renovations, offerPrice, downPaymentInput,
                                downPaymentMode, is30Year)
    /\ pass' = [pass EXCEPT !.fresh = FALSE]
    /\ UNCHANGED << amountInputs, owners, renovations, offerPrice, downPaymentInput,
                    downPaymentMode, is30Year, warnings, cmhc >>

\* the name field of member i changed to v:
\* owners[i].name = this.value; updatePerPersonRatios(); saveToStorage().
\* updatePerPersonRatios() without arguments writes the placeholder.
OnOwnerNameChange(i, v) ==
    /\ Step
    /\ i \in Present(owners)
    /\ v # owners[i].name
    /\ owners' = [owners EXCEPT ![i].name = v]
    /\ storage' = saveToStorage(financingSources, amountInputs,
                                [owners EXCEPT ![i].name = v], renovations, offerPrice,
                                downPaymentInput, downPaymentMode, is30Year)
    /\ pass' = IF "bars" \in DOMAIN pass
               THEN [pass EXCEPT !.fresh = FALSE,
                                 !.bars.perPersonRatios =
                                     updatePerPersonRatios(<< >>, RatZero, RatZero, RatZero)]
               ELSE [pass EXCEPT !.fresh = FALSE]
    /\ UNCHANGED << financingSources, amountInputs, renovations, offerPrice,
                    downPaymentInput, downPaymentMode, is30Year, warnings, cmhc >>

\* importFromJson(event) with a file that JSON.parse rejects
ImportUnparseable ==
    /\ Turn
    /\ Imported(UnparseableFile)

\* importFromJson(event) with an exported file in which entry k of one of the
\* three lists was replaced by null: the file parses
ImportEdited(list, k) ==
    /\ Turn
    /\ \E exported \in {exportToJson(financingSources, amountInputs, owners, renovations,
                                      offerPrice, downPaymentInput, downPaymentMode,
                                      is30Year)} :
          /\ k \in DOMAIN exported[list]
          /\ Imported([exported EXCEPT ![list][k] = NULL])

Next ==
    \/ AddFinancingSource
    \/ \E i \in 1..MaxSources, t \in TypeChoices : ChangeFinancingType(i, t)
    \/ \E i \in 1..MaxSources, v \in AmountChoices : OnAmountInput(i, v)
    \/ \E i \in 1..MaxSources : RemoveFinancingSource(i)
    \/ AddOwner
    \/ \E i \in 1..MaxOwners : RemoveOwner(i)
    \/ \E v \in DownChoices \cup PercentChoices : OnDownPaymentChange(v)
    \/ \E m \in {"amount", "percent"} : SetDownPaymentMode(m)
    \/ \E i \in 1..MaxSources, v \in RateChoices : OnRateInput(i, v)
    \/ \E i \in 1..MaxSources, v \in TermChoices : OnTermInput(i, v)
    \/ \E i \in 1..MaxOwners, v \in IncomeChoices : OnIncomeInput(i, v)
    \/ \E i \in 1..MaxOwners, field \in DebtFields :
           \E v \in {0, DebtChoices[field]} : OnDebtInput(i, field, v)
    \/ AddRenovation
    \/ \E i \in 1..MaxRenovations, v \in RenovationChoices : OnRenovationAmount(i, v)
    \/ \E i \in 1..MaxRenovations : RemoveRenovation(i)
    \/ Reload
    \/ ClearStorage
    \/ ImportFromJson
    \/ \E i \in 1..MaxSources, v \in NameChoices : OnNameChange(i, v)
    \/ \E i \in 1..MaxOwners, v \in OwnerNameChoices : OnOwnerNameChange(i, v)
    \/ ImportUnparseable

Spec == Init /\ [][Next]_vars

\* the page with, besides, files imported that were edited by hand
NextImport ==
    \/ Next
    \/ \E list \in SavedLists, k \in 1..MaxSources : ImportEdited(list, k)

SpecImport == Init /\ [][NextImport]_vars

(***************************************************************************)
(* The same operations on a page that already holds a budget: the page     *)
(* loaded with nothing stored, then a price of 50,000, a down payment of   *)
(* 40,000, a one-month term for the mortgage, a member's income, an RRSP   *)
(* and a CELIAPP amount and one renovation entered, and the renovation     *)
(* removed again or not.  Each input runs calculate() and saveToStorage(). *)
(***************************************************************************)
\* the page p after calculate() ran on it without raising
Calculated(p) ==
    [r \in {calculate(p.fs, p.dom, p.owners, p.renovations, p.offerPrice,
                      p.downPaymentInput, p.downPaymentMode, p.is30Year)} |->
        [p EXCEPT !.fs = r.fs, !.dom = r.dom, !.owners = r.os]]
    [calculate(p.fs, p.dom, p.owners, p.renovations, p.offerPrice,
               p.downPaymentInput, p.downPaymentMode, p.is30Year)]

\* the amounts typed into the RRSP and the CELIAPP fields of the budget:
\* below, at and above the two ceilings
BudgetSavings ==
    { [rrsp |-> 9000 * Dollar, celiapp |-> CELIAPP_MAX_CONTRIBUTION],
      [rrsp |-> RRSP_MAX_WITHDRAWAL, celiapp |-> K10],
      [rrsp |-> 63000 * Dollar, celiapp |-> 63000 * Dollar] }

InitBudget ==
    \E savings \in BudgetSavings, removed \in BOOLEAN :
    \E p1 \in {Calculated([defaultSeeding EXCEPT !.offerPrice = 5 * K10])} :
    \E p2 \in {Calculated([p1 EXCEPT !.downPaymentInput = 4 * K10])} :
    \E p3 \in {Calculated([p2 EXCEPT !.dom[1].term = Rat(1, 12)])} :
    \E p4 \in {Calculated([p3 EXCEPT !.owners[1].incomeInput = K10])} :
    \E p5 \in {Calculated([p4 EXCEPT !.dom[3].value = savings.rrsp,
                                     !.dom[3].byCalculator = FALSE])} :
    \E p6 \in {Calculated([p5 EXCEPT !.dom[2].value = savings.celiapp,
                                     !.dom[2].byCalculator = FALSE])} :
    \E p7 \in {[p6 EXCEPT !.renovations = addRenovationTo(p6.renovations, "", 0)]} :
    \E p8 \in {[p7 EXCEPT !.renovations[1].amount = K10]} :
    \E r \in {calculate(p8.fs, p8.dom, p8.owners, p8.renovations, p8.offerPrice,
                        p8.downPaymentInput, p8.downPaymentMode, p8.is30Year)} :
    \E q \in {calculate(r.fs, r.dom, r.os, removeAt(p8.renovations, 1), p8.offerPrice,
                        p8.downPaymentInput, p8.downPaymentMode, p8.is30Year)} :
        /\ financingSources = (IF removed THEN q.fs ELSE r.fs)
        /\ amountInputs = (IF removed THEN q.dom ELSE r.dom)
        /\ owners = r.os
        /\ renovations = (IF removed THEN removeAt(p8.renovations, 1) ELSE p8.renovations)
        /\ offerPrice = p8.offerPrice
        /\ downPaymentInput = p8.downPaymentInput
        /\ downPaymentMode = p8.downPaymentMode
        /\ is30Year = p8.is30Year
        /\ warnings = r.warnings
        /\ cmhc = (IF removed THEN q.cmhc ELSE r.cmhc)
        /\ pass = (IF removed /\ q.raised
                   THEN [r.pass EXCEPT !.fresh = FALSE, !.raised = TRUE]
                   ELSE r.pass)
        /\ storage = saveToStorage(r.fs, r.dom, r.os, p8.renovations, p8.offerPrice,
                                   p8.downPaymentInput, p8.downPaymentMode, p8.is30Year)
        /\ steps = 0
        /\ alertShown = ""
        /\ callArgs = NoCall
        /\ callResult = NoCall

SpecBudget == InitBudget /\ [][Next]_vars

(***************************************************************************)
(* The insurance calculation alone: calculateCmhc applied to a price, a    *)
(* down payment and an amortization option drawn from a range, on a page   *)
(* that holds nothing else.                                                *)
(***************************************************************************)
PriceRange == {k * K10 : k \in -1..MaxPrice}
DownRange == {k * K10 : k \in -1..MaxDown}

NoPass == [fresh |-> FALSE, raised |-> FALSE, downPayment |-> 0,
           totalSavingsForDownPayment |-> 0, downPaymentGap |-> 0]

InitCmhc ==
    /\ offerPrice \in PriceRange
    /\ downPaymentInput \in DownRange
    /\ is30Year \in BOOLEAN
    /\ downPaymentMode = "amount"
    /\ financingSources = << >>
    /\ amountInputs = << >>
    /\ owners = << >>
    /\ renovations = << >>
    /\ storage = NoData
    /\ warnings = << >>
    /\ cmhc = NoCmhc
    /\ pass = NoPass
    /\ steps = 0
    /\ alertShown = ""
    /\ callArgs = NoCall
    /\ callResult = NoCall

\* const cmhc = calculateCmhc(offerPrice, downPayment, is30Year)
CalculateCmhc ==
    /\ ~HasCmhc(cmhc)
    /\ cmhc' = calculateCmhc(offerPrice,
                   getDownPaymentAmount(offerPrice, downPaymentInput, downPaymentMode),
                   is30Year)
    /\ UNCHANGED << financingSources, amountInputs, owners, renovations, offerPrice,
                    downPaymentInput, downPaymentMode, is30Year, storage, warnings, pass,
                    steps, alertShown, callArgs, callResult >>

SpecCmhc == InitCmhc /\ [][CalculateCmhc]_vars

(***************************************************************************)
(* The calculation functions alone: each is applied once to arguments      *)
(* drawn from a set, on a page that holds nothing.                         *)
(***************************************************************************)
BlankPage ==
    /\ financingSources = << >>
    /\ amountInputs = << >>
    /\ owners = << >>
    /\ renovations = << >>
    /\ offerPrice = 0
    /\ downPaymentInput = 0
    /\ downPaymentMode = "amount"
    /\ is30Year = FALSE
    /\ storage = NoData
    /\ warnings = << >>
    /\ cmhc = NoCmhc
    /\ pass = NoPass
    /\ steps = 0
    /\ alertShown = ""

PageUntouched ==
    UNCHANGED << financingSources, amountInputs, owners, renovations, offerPrice,
                 downPaymentInput, downPaymentMode, is30Year, storage, warnings, cmhc,
                 pass, steps, alertShown >>

\* the welcome tax runs hold prices in units of 1/2000 dollar, so that the
\* largest threshold fits and the tax on ten cents is a whole number of units
WelcomeUnit == Dollar \div 2
\* ten cents, in those units
Dime == WelcomeUnit \div 10

WelcomeThresholds ==
    {QUEBEC_WELCOME_TAX_BRACKETS[i].threshold * WelcomeUnit :
        i \in 1..(Len(QUEBEC_WELCOME_TAX_BRACKETS) - 1)}

\* a grid of $25,000 from below zero to above the last threshold, the prices
\* within one dollar of each threshold, and prices of one dollar or less
WelcomePrices ==
    {k * 25000 * WelcomeUnit : k \in -1..MaxWelcomeGrid}
    \cup {t + o * Dime : t \in WelcomeThresholds, o \in {-10, -5, -1, 0, 1, 5, 10}}
    \cup {Dime, 5 * Dime, 10 * Dime}

InitWelcome ==
    /\ BlankPage
    /\ callArgs \in {[purchasePrice |-> price] : price \in WelcomePrices}
    /\ callResult = NoCall

\* const welcomeTax = calculateWelcomeTax(offerPrice)
CalculateWelcomeTax ==
    /\ ~HasReturned(callResult)
    /\ callResult' = calculateWelcomeTax(callArgs.purchasePrice, WelcomeUnit)
    /\ UNCHANGED callArgs
    /\ PageUntouched

SpecWelcome == InitWelcome /\ [][CalculateWelcomeTax]_vars

\* loans: principal in dollars, annual rate in percent, term in months.
\* Rates of 120 and 1200 percent a year are 1/10 and 1 a month, which keeps
\* the powers of 1 + r small; the long terms pass the chart's 360 months.
LoanAmounts == {-1, 0, 1, 7, 63, 480}
ShortTerms == {RatOf(n) : n \in {-12, 0, 1, 2, 3, 12}}
\* terms of 0.1, 0.3 and 0.7 year
BrokenTerms == {Rat(12 * tenths, 10) : tenths \in {1, 3, 7}}
LongTerms == {RatOf(n) : n \in {maxMonths, maxMonths + 12, MaxTermYears * 12}}
LoanChoices ==
    {[amount |-> a, rate |-> r, termMonths |-> n] :
        a \in LoanAmounts, r \in {0, 1200}, n \in ShortTerms}
    \cup {[amount |-> a, rate |-> 120, termMonths |-> RatOf(n)] :
        a \in LoanAmounts, n \in {1, 2, 3}}
    \cup {[amount |-> a, rate |-> 0, termMonths |-> n] :
        a \in LoanAmounts, n \in BrokenTerms \cup LongTerms}

InitLoan ==
    /\ BlankPage
    /\ callArgs \in LoanChoices
    /\ callResult = NoCall

\* the second pass of calculate() on one loan
CalculateLoan ==
    /\ ~HasReturned(callResult)
    /\ callResult' =
           [ stage |-> "paid",
             payment |-> calculateMonthlyPayment(RatOf(callArgs.amount),
                             RatOf(callArgs.rate), callArgs.termMonths),
             loan |-> LoanPass("Loan", "other_loan", RatOf(callArgs.amount),
                          RatOf(callArgs.rate), callArgs.termMonths) ]
    /\ UNCHANGED callArgs
    /\ PageUntouched

\* updateChart({loanPaymentDetails, ...})
UpdateChart ==
    /\ HasReturned(callResult)
    /\ callResult.stage = "paid"
    /\ callResult' =
           [ stage |-> "charted",
             payment |-> callResult.payment,
             loan |-> callResult.loan,
             chart |-> updateChart(callResult.loan.loanPaymentDetails) ]
    /\ UNCHANGED callArgs
    /\ PageUntouched

\* updateEquityChart({propertyValue, loanPaymentDetails}), the property
\* bought at the loan's amount
UpdateEquityChart ==
    /\ HasReturned(callResult)
    /\ callResult.stage = "charted"
    /\ callResult' =
           [ stage |-> "done",
             payment |-> callResult.payment,
             loan |-> callResult.loan,
             chart |-> callResult.chart,
             equity |-> updateEquityChart(RatOf(callArgs.amount),
                            callResult.loan.loanPaymentDetails) ]
    /\ UNCHANGED callArgs
    /\ PageUntouched

SpecLoan == InitLoan /\ [][CalculateLoan \/ UpdateChart \/ UpdateEquityChart]_vars

\* the affordability indicators alone: calculateAffordability and
\* updateAffordabilityBars applied to the data of one household
MemberIncomes == {-10, 0, 10, 30}
\* the four debt fields of a member: all empty, or a car loan, a student loan,
\* a personal loan and a credit card payment
MemberDebts == {<<0, 0, 0, 0>>, <<1, 2, 3, 4>>}
MemberChoices ==
    {OwnerEntry("Person", RatOf(income), RatOf(debts[1]), RatOf(debts[2]),
                RatOf(debts[3]), RatOf(debts[4])) :
        income \in MemberIncomes, debts \in MemberDebts}
OwnerDataChoices == UNION {[1..n -> MemberChoices] : n \in 0..MaxMembers}
AffordChoices ==
    {[totalMonthlyLoanPayment |-> RatOf(loans), insurance |-> RatOf(insurance),
      electricity |-> RatOf(electricity), cityTaxesMonthly |-> RatOf(taxes),
      ownerData |-> ownerData, rrspMonthlyRepayment |-> RatOf(rrsp)] :
        loans \in {0, 2, 10, 14}, insurance \in {0, 1}, electricity \in {0, 1},
        taxes \in {1}, ownerData \in OwnerDataChoices, rrsp \in {0, 6}}

\* what calculate() hands to updateAffordabilityBars for the arguments drawn
DataOfCall ==
    AffordabilityData(callArgs.totalMonthlyLoanPayment, callArgs.insurance,
        callArgs.electricity, RatZero, callArgs.cityTaxesMonthly, callArgs.ownerData,
        callArgs.rrspMonthlyRepayment)

InitAfford ==
    /\ BlankPage
    /\ callArgs \in AffordChoices
    /\ callResult = NoCall

CalculateAffordability ==
    /\ ~HasReturned(callResult)
    /\ callResult' =
           [ stage |-> "classified",
             affordability |->
                 calculateAffordability(DataOfCall.totalMonthlyCosts,
                                        DataOfCall.totalGrossIncome) ]
    /\ UNCHANGED callArgs
    /\ PageUntouched

UpdateAffordabilityBars ==
    /\ HasReturned(callResult)
    /\ callResult.stage = "classified"
    /\ callResult' =
           [ stage |-> "shown",
             affordability |-> callResult.affordability,
             bars |-> updateAffordabilityBars(DataOfCall) ]
    /\ UNCHANGED callArgs
    /\ PageUntouched

SpecAfford == InitAfford /\ [][CalculateAffordability \/ UpdateAffordabilityBars]_vars

(***************************************************************************)
(* Properties.                                                             *)
(***************************************************************************)
RECURSIVE SumOver(_, _)
SumOver(S, f) ==
    IF S = {} THEN 0
    ELSE LET x == CHOOSE y \in S : TRUE
         IN  f[x] + SumOver(S \ {x}, f)

\* the gap slots: non-null sources with isAutoCalculated and type parents_loan
GapSlots ==
    {i \in Present(financingSources) :
        financingSources[i].isAutoCalculated
        /\ financingSources[i].sourceType = "parents_loan"}

AutoFillSlots ==
    {i \in Present(financingSources) : financingSources[i].isAutoFillMortgage}

\* the non-null sources whose type counts toward the down payment, without
\* the gap slot g and the auto-fill mortgage slot
EligibleBeside(g) ==
    {i \in Present(financingSources) \ ({g} \cup AutoFillSlots) :
        FINANCING_TYPES[financingSources[i].sourceType].countsTowardDownPayment}

AmountOf(i) == financingSources[i].amount
Amounts == [i \in Present(financingSources) |-> financingSources[i].amount]
PositiveAmounts == [i \in Present(financingSources) |-> Max(0, financingSources[i].amount)]

\* C1 as stated: after a calculate() pass every gap slot's amount is >= 0 and
\* equals max(0, requiredDownPayment - S), S the sum of the current amounts of
\* the other non-null down-payment sources (not the auto-fill mortgage).
C1_GapIsShortfallOfAmounts ==
    pass.fresh =>
        \A g \in GapSlots :
            /\ AmountOf(g) >= 0
            /\ AmountOf(g) = Max(0, pass.downPayment - SumOver(EligibleBeside(g), Amounts))

\* C1 amended: after a calculate() pass every gap slot's amount is >= 0 and
\* equals max(0, requiredDownPayment - S), S the sum of the amounts above zero
\* of the other non-null down-payment sources (not the auto-fill mortgage).
C1_GapIsShortfallOfPositiveAmounts ==
    pass.fresh =>
        \A g \in GapSlots :
            /\ AmountOf(g) >= 0
            /\ AmountOf(g) =
                   Max(0, pass.downPayment - SumOver(EligibleBeside(g), PositiveAmounts))

\* a pass that left a gap above zero beside savings above zero and a source
\* with an amount below zero
C1_Witness ==
    /\ pass.fresh
    /\ \E g \in GapSlots :
          /\ AmountOf(g) > 0
          /\ \E i \in EligibleBeside(g) : AmountOf(i) > 0
          /\ \E i \in EligibleBeside(g) : AmountOf(i) < 0

\* C2: in every reachable state at most one non-null financing source has
\* isAutoFillMortgage = true.
C2_AtMostOneAutoFillMortgage == Cardinality(AutoFillSlots) <= 1

\* the auto-fill mortgage of a list loaded from storage after a removal
\* (the list is shorter than the seeded one)
C2_Witness ==
    /\ Cardinality(AutoFillSlots) = 1
    /\ Len(financingSources) < Len(DefaultSeeds)
    /\ Present(financingSources) # {}

\* C3: in every reachable state at most one non-null financing source has
\* isAutoCalculated = true together with sourceType = parents_loan.
C3_AtMostOneGapSlot == Cardinality(GapSlots) <= 1

\* C4: the number of non-null entries of owners is always >= 1, and a
\* removeOwner step taken when exactly one member remains changes nothing of
\* the program's state.
C4_LastOwnerIsKept ==
    /\ [](Cardinality(Present(owners)) >= 1)
    /\ [][ (Cardinality(Present(owners)) = 1 /\ \E i \in 1..MaxOwners : RemoveOwner(i))
            => UNCHANGED << financingSources, amountInputs, owners, offerPrice,
                            downPaymentInput, downPaymentMode, is30Year, storage,
                            warnings, cmhc, pass >> ]_vars

\* a member was added and one was removed: one of two slots is left
C4_Witness ==
    /\ Len(owners) = 2
    /\ Cardinality(Present(owners)) = 1

\* the name, type and auto flags of a source
Identity(source) ==
    << source.name, source.sourceType, source.isAutoFillMortgage, source.isAutoCalculated >>

PageLoaded == Reload \/ ClearStorage \/ ImportFromJson

\* C5: removeFinancingSource(i) nulls slot i and leaves every other source at
\* its index with its name, type and auto flags; within a page session the
\* array's length never decreases and a nulled slot stays null; and
\* addFinancingSource puts the new source at the index equal to the length,
\* leaving every earlier slot as it was.
C5_IndicesAreStable ==
    [][ /\ ~PageLoaded =>
            /\ Len(financingSources') >= Len(financingSources)
            /\ \A j \in DOMAIN financingSources :
                   IsNull(financingSources[j]) => IsNull(financingSources'[j])
        /\ \A i \in 1..MaxSources :
               RemoveFinancingSource(i) =>
                   /\ Len(financingSources') = Len(financingSources)
                   /\ IsNull(financingSources'[i])
                   /\ \A j \in DOMAIN financingSources \ {i} :
                          /\ IsNull(financingSources'[j]) = IsNull(financingSources[j])
                          /\ ~IsNull(financingSources[j]) =>
                                 Identity(financingSources'[j]) = Identity(financingSources[j])
        /\ AddFinancingSource =>
               /\ Len(financingSources') = Len(financingSources) + 1
               /\ ~IsNull(financingSources'[Len(financingSources) + 1])
               /\ \A j \in DOMAIN financingSources :
                      financingSources'[j] = financingSources[j]
      ]_vars

\* a source added after an earlier slot was nulled: the nulled slot is still
\* there, followed by a non-null source, and the new one is last
C5_Witness ==
    /\ Len(financingSources) = Len(DefaultSeeds) + 1
    /\ \E j \in 1..(Len(DefaultSeeds) - 1) :
          IsNull(financingSources[j]) /\ ~IsNull(financingSources[j + 1])
    /\ ~IsNull(financingSources[Len(financingSources)])

\* the total financed amount of the current price, down payment and option
CurrentTotalMortgage ==
    calculateCmhc(offerPrice,
                  getDownPaymentAmount(offerPrice, downPaymentInput, downPaymentMode),
                  is30Year).totalMortgage

\* C6 as stated: after a calculate() pass the auto-fill mortgage slot's amount
\* equals the total financed amount calculateCmhc gives for the current
\* price, down payment and amortization option.
C6_MortgageIsTotalFinanced ==
    pass.fresh =>
        \A m \in AutoFillSlots :
            /\ cmhc.totalMortgage = CurrentTotalMortgage
            /\ AmountOf(m) = cmhc.totalMortgage

\* C6 amended: after a calculate() pass the auto-fill mortgage slot's amount
\* equals the total financed amount of the current inputs when that total is
\* above zero, and 0 when it is not (a down payment of the price or more).
C6_MortgageIsTotalFinancedOrZero ==
    pass.fresh =>
        \A m \in AutoFillSlots :
            /\ cmhc.totalMortgage = CurrentTotalMortgage
            /\ AmountOf(m) = Max(0, cmhc.totalMortgage)

\* a pass with insurance required: the slot holds the mortgage plus a
\* premium and its tax, which is no whole number of dollars
C6_Witness ==
    /\ pass.fresh
    /\ \E m \in AutoFillSlots :
          /\ cmhc.cmhcRequired
          /\ cmhc.cmhcPremium > 0
          /\ AmountOf(m) > cmhc.mortgageAmount
          /\ AmountOf(m) # amountInputs[m].value

\* the non-null sources the first pass may count as savings
SavingsSlots ==
    {i \in Present(financingSources) :
        /\ FINANCING_TYPES[financingSources[i].sourceType].countsTowardDownPayment
        /\ ~FINANCING_TYPES[financingSources[i].sourceType].isAutoCalculated}

\* per source, the amount the user entered for it, when above zero
UserEntered ==
    [i \in Present(financingSources) |->
        IF amountInputs[i].byCalculator THEN 0 ELSE Max(0, amountInputs[i].value)]

\* C7: after a calculate() pass totalSavingsForDownPayment is the sum of the
\* amounts the user entered for the down-payment sources; an amount the
\* calculator wrote into a field (the mortgage auto-fill, the gap) is not in it.
C7_SavingsAreUserEntered ==
    pass.fresh =>
        pass.totalSavingsForDownPayment = SumOver(SavingsSlots, UserEntered)

InK10(x) == x \div K10

\* C8: calculateCmhc reports insurance required exactly when the
\* loan-to-value (price - down) / price is above 0.80; at exactly 0.80 it is
\* not required.
C8_RequiredIffLtvAbove80 ==
    HasCmhc(cmhc) =>
        (cmhc.cmhcRequired <=>
            /\ offerPrice > 0
            /\ 100 * InK10(offerPrice - downPaymentInput) > 80 * InK10(offerPrice))

\* a calculation at a loan-to-value of exactly 0.80 (20% down)
C8_Witness ==
    /\ HasCmhc(cmhc)
    /\ offerPrice > 0
    /\ 5 * InK10(downPaymentInput) = InK10(offerPrice)
    /\ ~cmhc.cmhcRequired

\* C9: the provincial tax is the premium times 0.09975 (399 money units per
\* premium dollar), the total financed amount is price - down + premium +
\* tax, and when insurance is not required premium, tax and insurance cost
\* are 0 and the total is price - down, with the loan-to-value and the
\* mortgage amount reported all the same.
C9_TaxAndTotal ==
    HasCmhc(cmhc) =>
        /\ cmhc.cmhcPremium % Dollar = 0
        /\ cmhc.quebecTax = (cmhc.cmhcPremium \div Dollar) * TVQ_NUM
        /\ cmhc.totalCmhcCost = cmhc.cmhcPremium + cmhc.quebecTax
        /\ cmhc.totalMortgage =
               (offerPrice - downPaymentInput) + cmhc.cmhcPremium + cmhc.quebecTax
        /\ cmhc.mortgageAmount = offerPrice - downPaymentInput
        /\ offerPrice > 0 =>
               cmhc.ltv.n * InK10(offerPrice)
                   = cmhc.ltv.d * InK10(offerPrice - downPaymentInput)
        /\ ~cmhc.cmhcRequired =>
               /\ cmhc.cmhcPremium = 0
               /\ cmhc.quebecTax = 0
               /\ cmhc.totalCmhcCost = 0
               /\ cmhc.totalMortgage = offerPrice - downPaymentInput

\* a calculation with a premium and one without, each with a mortgage amount
\* above zero
C9_Witness ==
    /\ HasCmhc(cmhc)
    /\ cmhc.cmhcRequired
    /\ cmhc.cmhcPremium > 0
    /\ cmhc.quebecTax > 0
    /\ cmhc.totalMortgage > cmhc.mortgageAmount

\* C10: for price > 0 and a down payment in [0, price] calculateLtv is in
\* [0, 1]; it is 0 when the down payment is the price; for price <= 0 it is 0.
C10_LtvRange ==
    HasCmhc(cmhc) =>
        /\ (offerPrice > 0 /\ 0 <= downPaymentInput /\ downPaymentInput <= offerPrice) =>
               (0 <= cmhc.ltv.n /\ cmhc.ltv.n <= cmhc.ltv.d)
        /\ (offerPrice > 0 /\ downPaymentInput = offerPrice) => cmhc.ltv.n = 0
        /\ offerPrice <= 0 => cmhc.ltv.n = 0

\* a loan-to-value strictly between 0 and 1
C10_Witness ==
    /\ HasCmhc(cmhc)
    /\ offerPrice > 0
    /\ 0 < cmhc.ltv.n
    /\ cmhc.ltv.n < cmhc.ltv.d

(***************************************************************************)
(* Welcome tax.                                                            *)
(***************************************************************************)
\* x * n / d is a whole number of units
IsExact(x, n, d) == ((x % d) * n) % d = 0

\* C11: for a price above zero the amounts of the breakdown entries sum to
\* the price, the entries are contiguous from 0 to the price, and totalTax
\* is the sum of amount x rate over the entries; for a price of zero or
\* less the breakdown is empty and totalTax is 0.
C11_BreakdownCoversPrice ==
    HasReturned(callResult) =>
        LET price == callArgs.purchasePrice
            b == callResult.breakdown
        IN  IF price > 0
            THEN /\ Len(b) >= 1
                 /\ SumOver(DOMAIN b, [i \in DOMAIN b |-> b[i].amount]) = price
                 /\ b[1].from = 0
                 /\ b[Len(b)].to = price
                 /\ \A i \in 2..Len(b) : b[i].from = b[i - 1].to
                 /\ \A i \in DOMAIN b : IsExact(b[i].amount, b[i].rate, WELCOME_RATE_ONE)
                 /\ callResult.totalTax =
                        SumOver(DOMAIN b,
                            [i \in DOMAIN b |->
                                MulFrac(b[i].amount, b[i].rate, WELCOME_RATE_ONE)])
            ELSE /\ b = << >>
                 /\ callResult.totalTax = 0

\* a price in the last bracket: five entries
C11_Witness ==
    /\ HasReturned(callResult)
    /\ callArgs.purchasePrice > 1000000 * WelcomeUnit
    /\ Len(callResult.breakdown) = 5

\* the tax on threshold i reached through brackets 1..i, each on its full width
RECURSIVE TaxThrough(_)
TaxThrough(i) ==
    IF i = 0 THEN 0
    ELSE TaxThrough(i - 1)
         + MulFrac((QUEBEC_WELCOME_TAX_BRACKETS[i].threshold
                    - (IF i = 1 THEN 0 ELSE QUEBEC_WELCOME_TAX_BRACKETS[i - 1].threshold))
                   * WelcomeUnit,
                   QUEBEC_WELCOME_TAX_BRACKETS[i].rate, WELCOME_RATE_ONE)

\* C12: totalTax is non-decreasing in the price, and at every threshold T
\* the tax through the lower bracket is the tax at T, and one dollar above
\* T (and one dollar below) the tax differs by the rate of the bracket above
\* (below) on one dollar.
C12_TaxIsContinuousAndMonotone ==
    HasReturned(callResult) =>
        LET price == callArgs.purchasePrice
            tax == callResult.totalTax
        IN  /\ \A q \in WelcomePrices :
                    q >= price => calculateWelcomeTax(q, WelcomeUnit).totalTax >= tax
            /\ \A i \in 1..(Len(QUEBEC_WELCOME_TAX_BRACKETS) - 1) :
                    price = QUEBEC_WELCOME_TAX_BRACKETS[i].threshold * WelcomeUnit =>
                        /\ tax = TaxThrough(i)
                        /\ calculateWelcomeTax(price + WelcomeUnit, WelcomeUnit).totalTax - tax
                               = MulFrac(WelcomeUnit, QUEBEC_WELCOME_TAX_BRACKETS[i + 1].rate,
                                         WELCOME_RATE_ONE)
                        /\ tax - calculateWelcomeTax(price - WelcomeUnit, WelcomeUnit).totalTax
                               = MulFrac(WelcomeUnit, QUEBEC_WELCOME_TAX_BRACKETS[i].rate,
                                         WELCOME_RATE_ONE)

\* the tax at the threshold of $500,000
C12_Witness ==
    /\ HasReturned(callResult)
    /\ callArgs.purchasePrice = 500000 * WelcomeUnit

\* C13: calculateMonthlyPayment returns monthlyPayment, totalPayments and
\* totalInterest of zero whenever the principal or the term is zero or
\* less; otherwise, at an annual rate of zero, it returns the principal over
\* the term as monthlyPayment and a totalInterest of zero.
C13_PaymentIsGuarded ==
    (HasReturned(callResult) /\ "payment" \in DOMAIN callResult) =>
        IF callArgs.amount <= 0 \/ ~RatIsPos(callArgs.termMonths)
        THEN /\ callResult.payment.monthlyPayment = RatZero
             /\ callResult.payment.totalPayments = RatZero
             /\ callResult.payment.totalInterest = RatZero
        ELSE callArgs.rate = 0 =>
                 /\ callResult.payment.monthlyPayment
                        = RatDiv(RatOf(callArgs.amount), callArgs.termMonths)
                 /\ callResult.payment.totalInterest = RatZero

\* a call with a term of zero and a principal above zero has returned
C13_Witness ==
    /\ HasReturned(callResult)
    /\ "payment" \in DOMAIN callResult
    /\ callArgs.amount > 0
    /\ callArgs.termMonths = RatZero
    /\ callResult.payment.monthlyPayment = RatZero

\* the balances a schedule leaves after each of the months lo..hi, from the
\* balance `start` before month lo
RECURSIVE BalancesAfter(_, _, _, _)
BalancesAfter(principalData, lo, hi, start) ==
    IF lo > hi THEN << >>
    ELSE IF lo = hi THEN << RatMinus(start, principalData[lo]) >>
    ELSE CHOOSE all \in
             { first \o BalancesAfter(principalData, (lo + hi) \div 2 + 1, hi,
                                      first[Len(first)]) :
                 first \in {BalancesAfter(principalData, lo, (lo + hi) \div 2, start)} } : TRUE

\* the balance before month m of a schedule
BalanceBefore(balances, m, start) == IF m = 1 THEN start ELSE balances[m - 1]

\* the principal portions are capped at the balance: none is below zero or
\* above the balance before it, so that the balance never rises and never
\* falls below zero
PortionsAreCapped(principalData, balances, start) ==
    \A m \in DOMAIN principalData :
        /\ ~RatLess(principalData[m], RatZero)
        /\ ~RatLess(BalanceBefore(balances, m, start), principalData[m])
        /\ ~RatLess(balances[m], RatZero)

\* the debt of the equity chart never rises and never falls below zero
DebtNeverRises(remainingDebtData) ==
    \A y \in DOMAIN remainingDebtData :
        /\ ~RatLess(remainingDebtData[y], RatZero)
        /\ y > 1 => ~RatLess(remainingDebtData[y - 1], remainingDebtData[y])

\* C14 as stated: for a loan with amount > 0 and monthly payment > 0 the
\* schedules of the charts cap each principal portion at the remaining
\* balance, the balance never rises and is never negative, the principal
\* portions sum to the principal and the final remaining balance is 0.
C14_ScheduleRepaysPrincipal ==
    (HasReturned(callResult) /\ "equity" \in DOMAIN callResult
        /\ callResult.loan.loanPaymentDetails # << >>) =>
        LET principalData == callResult.chart.principalDataByLoan[1]
            balances == BalancesAfter(principalData, 1, maxMonths, RatOf(callArgs.amount))
        IN  /\ PortionsAreCapped(principalData, balances, RatOf(callArgs.amount))
            /\ DebtNeverRises(callResult.equity.remainingDebtData)
            /\ balances[maxMonths] = RatZero
            /\ callResult.chart.remainingBalance[1] = RatZero
            /\ callResult.equity.remainingDebtData[maxYears + 1] = RatZero

\* C14, amended: the same, the principal portions summing to the principal
\* and the final balance being 0 for a term of at most maxMonths months;
\* for a longer term the schedules stop at the horizon of the charts with
\* the rest of the principal as balance.
C14_ScheduleRepaysPrincipalWithinHorizon ==
    (HasReturned(callResult) /\ "equity" \in DOMAIN callResult
        /\ callResult.loan.loanPaymentDetails # << >>) =>
        LET principalData == callResult.chart.principalDataByLoan[1]
            balances == BalancesAfter(principalData, 1, maxMonths, RatOf(callArgs.amount))
        IN  /\ PortionsAreCapped(principalData, balances, RatOf(callArgs.amount))
            /\ DebtNeverRises(callResult.equity.remainingDebtData)
            /\ callResult.chart.remainingBalance[1] = balances[maxMonths]
            /\ callResult.equity.remainingDebtData[maxYears + 1] = balances[maxMonths]
            /\ ~RatLess(RatOf(maxMonths), callArgs.termMonths) =>
                   balances[maxMonths] = RatZero
            /\ RatLess(RatOf(maxMonths), callArgs.termMonths) =>
                   RatIsPos(balances[maxMonths])

\* a loan over 0.3 year is charted: its fourth principal portion is the
\* balance left, less than the payment
C14_Witness ==
    /\ HasReturned(callResult)
    /\ "equity" \in DOMAIN callResult
    /\ callArgs.amount = 480
    /\ callArgs.termMonths = Rat(36, 10)
    /\ callResult.chart.remainingBalance[1] = RatZero
    /\ RatIsPos(callResult.chart.principalDataByLoan[1][4])
    /\ RatLess(callResult.chart.principalDataByLoan[1][4],
               callResult.loan.monthlyPayment)
    /\ callResult.chart.principalDataByLoan[1][5] = RatZero

(***************************************************************************)
(* Affordability.                                                          *)
(***************************************************************************)
\* C15: for a household income above zero the ratio totalMonthlyCosts /
\* totalGrossIncome is labelled Affordable when it is at most 0.30, Caution
\* when it is above 0.30 and at most 0.40, High Risk when it is above 0.40,
\* and calculateAffordability and updateAffordabilityBars give the same label.
C15_LabelsAgreeWithThresholds ==
    (HasReturned(callResult) /\ "bars" \in DOMAIN callResult
        /\ RatIsPos(DataOfCall.totalGrossIncome)) =>
        LET costs == DataOfCall.totalMonthlyCosts
            income == DataOfCall.totalGrossIncome
            \* the ratio against 0.30 and 0.40, in whole numbers
            atMost30 == costs.n * income.d * 100 <= 30 * income.n * costs.d
            atMost40 == costs.n * income.d * 100 <= 40 * income.n * costs.d
            label == IF atMost30 THEN "Affordable"
                     ELSE IF atMost40 THEN "Caution" ELSE "High Risk"
        IN  /\ callResult.affordability.status = label
            /\ callResult.bars.housingCost.status = label

\* a household whose costs are exactly 0.40 of its income is labelled Caution
C15_Witness ==
    /\ HasReturned(callResult)
    /\ "bars" \in DOMAIN callResult
    /\ RatIsPos(DataOfCall.totalGrossIncome)
    /\ RatMul(DataOfCall.totalGrossIncome, RatOf(4))
           = RatMul(DataOfCall.totalMonthlyCosts, RatOf(10))
    /\ callResult.bars.housingCost.status = "Caution"
    /\ callResult.affordability.status = "Caution"

\* C16: with a combined income above zero the housing-cost shares of the
\* members sum to the housing cost of the household, loan payments plus
\* monthly property tax plus electricity.
C16_SharesSumToHousingCost ==
    (HasReturned(callResult) /\ "bars" \in DOMAIN callResult
        /\ RatIsPos(DataOfCall.totalGrossIncome)) =>
        LET cards == callResult.bars.perPersonRatios
        IN  /\ Len(cards) = Len(callArgs.ownerData)
            /\ RatSum([i \in DOMAIN cards |-> cards[i].housingCostShare], 1, Len(cards))
                   = RatPlus(RatPlus(callArgs.totalMonthlyLoanPayment,
                                     callArgs.cityTaxesMonthly), callArgs.electricity)

\* three members with different incomes, one of them below zero, share a
\* housing cost above zero
C16_Witness ==
    /\ HasReturned(callResult)
    /\ "bars" \in DOMAIN callResult
    /\ Len(callResult.bars.perPersonRatios) = 3
    /\ callArgs.ownerData[1].income = RatOf(-10)
    /\ callArgs.ownerData[2].income = RatOf(10)
    /\ callArgs.ownerData[3].income = RatOf(30)
    /\ RatIsPos(callArgs.totalMonthlyLoanPayment)
    /\ RatIsPos(callResult.bars.perPersonRatios[3].housingCostShare)

(***************************************************************************)
(* The budget page: RRSP repayment, advisories, renovations, round trip.   *)
(***************************************************************************)
\* the RRSP sources of the page that hold an amount above zero
RrspSlots ==
    { i \in Present(financingSources) :
        /\ financingSources[i].sourceType = "rrsp"
        /\ financingSources[i].amount > 0 }

\* the sum of amount / 15 / 12 over the RRSP sources from index i on
RECURSIVE RrspObligationFrom(_)
RrspObligationFrom(i) ==
    IF i > Len(financingSources) THEN RatZero
    ELSE RatPlus(IF i \in RrspSlots
                 THEN RatDiv(RatDiv(RatOf(financingSources[i].amount), RatOf(15)), RatOf(12))
                 ELSE RatZero,
                 RrspObligationFrom(i + 1))

\* C17: after a calculate() pass, the RRSP repayment handed to the
\* affordability analysis and the chart is the sum, over every non-null RRSP
\* source with an amount above zero, of amount / 15 / 12.
C17_RrspRepaymentIsSumOverSources ==
    pass.fresh => pass.rrspMonthlyRepayment = RrspObligationFrom(1)

\* the advisories the claim expects, for the sources from index i on, in the
\* order of the list
RECURSIVE AdvisoriesFrom(_)
AdvisoriesFrom(i) ==
    IF i > Len(financingSources) THEN << >>
    ELSE (IF i \in Present(financingSources)
             /\ financingSources[i].sourceType = "rrsp"
             /\ financingSources[i].amount > 60000 * Dollar
          THEN << [type |-> "warning", source |-> "RRSP"] >>
          ELSE IF i \in Present(financingSources)
                  /\ financingSources[i].sourceType = "celiapp"
                  /\ financingSources[i].amount > 40000 * Dollar
          THEN << [type |-> "warning", source |-> "CELIAPP"] >>
          ELSE << >>)
         \o AdvisoriesFrom(i + 1)

\* the sources the first pass counts as savings, whatever their amount is
\* against a ceiling
CountedSlots ==
    { i \in Present(financingSources) :
        /\ FINANCING_TYPES[financingSources[i].sourceType].countsTowardDownPayment
        /\ ~FINANCING_TYPES[financingSources[i].sourceType].isAutoCalculated
        /\ financingSources[i].amount > 0 }

\* the sources an advisory is about
AdvisedSlots ==
    { i \in Present(financingSources) :
        \/ /\ financingSources[i].sourceType = "rrsp"
           /\ financingSources[i].amount > 60000 * Dollar
        \/ /\ financingSources[i].sourceType = "celiapp"
           /\ financingSources[i].amount > 40000 * Dollar }

\* the payments of the loans of the pass, from detail k on
RECURSIVE LoanPaymentsFrom(_)
LoanPaymentsFrom(k) ==
    IF k > Len(pass.loanPaymentDetails) THEN RatZero
    ELSE RatPlus(calculateMonthlyPayment(pass.loanPaymentDetails[k].amount,
                                         pass.loanPaymentDetails[k].rate,
                                         pass.loanPaymentDetails[k].termMonths).monthlyPayment,
                 LoanPaymentsFrom(k + 1))

\* C18: after a calculate() pass the warnings are one advisory for each
\* non-null RRSP source above 60000 and each non-null CELIAPP source above
\* 40000, and nothing else (none at the ceiling, none from an earlier pass);
\* the advisories change no result: the sources they are about count with
\* their whole amount, the gap is the shortfall of all counted savings, the
\* loan payments are those of the loans' amounts and the ratios those of
\* these payments.
C18_AdvisoriesAreExactAndInformational ==
    pass.fresh =>
        /\ warnings = AdvisoriesFrom(1)
        /\ AdvisedSlots \subseteq CountedSlots
        /\ pass.totalSavingsForDownPayment = SumOver(CountedSlots, Amounts)
        /\ pass.downPaymentGap =
               Max(0, pass.downPayment - SumOver(CountedSlots, Amounts))
        /\ pass.totalMonthlyLoanPayment = LoanPaymentsFrom(1)
        /\ pass.bars =
               updateAffordabilityBars(
                   AffordabilityData(LoanPaymentsFrom(1), RatZero, RatZero, RatZero,
                       RatZero, OwnerData(owners, 1), pass.rrspMonthlyRepayment))

\* a pass over an RRSP source exactly at its ceiling and a source above its
\* ceiling, which emitted one advisory and left a gap for the parents' loan
C18_Witness ==
    /\ pass.fresh
    /\ \E i \in Present(financingSources) :
          /\ financingSources[i].sourceType = "rrsp"
          /\ financingSources[i].amount = RRSP_MAX_WITHDRAWAL
    /\ AdvisedSlots # {}
    /\ Len(warnings) = Cardinality(AdvisedSlots)
    /\ pass.downPaymentGap > 0

\* the amounts of the renovation items that were not removed
RenovationAmounts ==
    [i \in Present(renovations) |-> renovations[i].amount]

\* C19: after any sequence of addRenovation and removeRenovation calls,
\* calculate() runs to completion without raising, and its one-time total
\* includes exactly the sum of the amounts of the items not removed.
C19_RenovationsAreAdditive ==
    /\ ~pass.raised
    /\ pass.fresh =>
          /\ pass.totalRenovations = SumOver(Present(renovations), RenovationAmounts)
          /\ pass.totalOneTime =
                 calculateWelcomeTax(offerPrice, Dollar).totalTax
                 + SumOver(Present(renovations), RenovationAmounts)

\* the amounts of the non-null sources, from index i on, in the order of the
\* list
RECURSIVE SourceAmountsFrom(_)
SourceAmountsFrom(i) ==
    IF i > Len(financingSources) THEN << >>
    ELSE (IF i \in Present(financingSources)
          THEN << [name |-> financingSources[i].name,
                   sourceType |-> financingSources[i].sourceType,
                   amount |-> financingSources[i].amount] >>
          ELSE << >>)
         \o SourceAmountsFrom(i + 1)

\* the computed results the page shows: the LTV and insurance figures, the
\* sources' amounts, the loans' monthly payments, the gap, the ratios and the
\* warnings
CalculationSnapshot ==
    [ cmhc |-> cmhc,
      amounts |-> SourceAmountsFrom(1),
      loanPaymentDetails |-> pass.loanPaymentDetails,
      totalMonthlyLoanPayment |-> pass.totalMonthlyLoanPayment,
      downPaymentGap |-> pass.downPaymentGap,
      bars |-> pass.bars,
      warnings |-> warnings ]

\* C20: exporting the current state and loading it back (loadFromStorage
\* followed by calculate) reproduces the computed results the page showed
\* before the export: the LTV and insurance figures, the sources' amounts and
\* monthly payments, the gap, the ratios and the warnings.
C20_RoundTripReproducesResults ==
    [][ImportFromJson => CalculationSnapshot' = CalculationSnapshot]_vars

(***************************************************************************)
(* The insurance rate.                                                     *)
(***************************************************************************)
\* whether the loan-to-value of the call is at most c percent
LtvAtMost(c) ==
    IF offerPrice <= 0 THEN 0 <= c
    ELSE 100 * InK10(offerPrice - downPaymentInput) <= c * InK10(offerPrice)

\* the rate, in units of 0.0001, of the first bracket in ascending order whose
\* ceiling is at or above the loan-to-value of the call
FirstBracketRate ==
    IF LtvAtMost(65) THEN 60
    ELSE IF LtvAtMost(75) THEN 170
    ELSE IF LtvAtMost(80) THEN 240
    ELSE IF LtvAtMost(85) THEN 280
    ELSE IF LtvAtMost(90) THEN 310
    ELSE 400

\* C24: for every ltv <= 0.95 getCmhcRate returns the rate of the first
\* bracket in ascending order whose ceiling is >= ltv (a ltv equal to a
\* ceiling selects that bracket), plus 0.0020 when is30Year is set and
\* nothing otherwise.
C24_RateIsFirstBracketPlusSurcharge ==
    (HasCmhc(cmhc) /\ LtvAtMost(95)) =>
        cmhc.premiumRate = FirstBracketRate + (IF is30Year THEN 20 ELSE 0)

\* calls at a loan-to-value of exactly 0.85, with the extended amortization
C24_Witness ==
    /\ HasCmhc(cmhc)
    /\ offerPrice > 0
    /\ 100 * InK10(offerPrice - downPaymentInput) = 85 * InK10(offerPrice)
    /\ is30Year
    /\ cmhc.premiumRate = 300

\* C28: for a loan-to-value above 0.95 getCmhcRate matches no bracket and
\* returns 0, or the 0.0020 surcharge alone with the extended amortization;
\* calculateCmhc reports insurance as required and a premium of
\* mortgageAmount times that rate, 0 without the surcharge.
C28_NoBracketAbove95 ==
    (HasCmhc(cmhc) /\ ~LtvAtMost(95)) =>
        /\ cmhc.premiumRate = (IF is30Year THEN 20 ELSE 0)
        /\ cmhc.cmhcRequired
        /\ cmhc.cmhcPremium = (cmhc.mortgageAmount \div RateOne) * cmhc.premiumRate
        /\ ~is30Year => (cmhc.cmhcPremium = 0 /\ cmhc.totalMortgage = cmhc.mortgageAmount)

\* a call with nothing down and the extended amortization: required, with
\* the surcharge alone as the rate
C28_Witness ==
    /\ HasCmhc(cmhc)
    /\ offerPrice > 0
    /\ downPaymentInput = 0
    /\ is30Year
    /\ cmhc.cmhcRequired
    /\ cmhc.premiumRate = 20
    /\ cmhc.cmhcPremium > 0

(***************************************************************************)
(* Per-person ratios.                                                      *)
(***************************************************************************)
\* the cards of the call, once the bars were updated
CardsShown == callResult.bars.perPersonRatios

\* what a card's TDS amount holds beyond the member's housing share and own
\* four debt payments: the member's share of the RRSP repayment
RrspShareOf(i) ==
    RatMinus(RatMinus(CardsShown[i].tdsAmount, CardsShown[i].housingCostShare),
             RatPlus(RatPlus(callArgs.ownerData[i].carLoan,
                             callArgs.ownerData[i].studentLoan),
                     RatPlus(callArgs.ownerData[i].personalLoan,
                             callArgs.ownerData[i].creditCard)))

IsNumber(x) == x.d > 0

\* C26: no ratio computation divides by zero: with a household income <= 0
\* (zero members included) the household ratio is 0 with a neutral status
\* and no per-person ratio is produced; with a household income above zero
\* every ratio is a number and a member whose income is 0 has a GDS and a
\* TDS ratio of 0.
C26_RatiosNeverDivideByZero ==
    (HasReturned(callResult) /\ "bars" \in DOMAIN callResult) =>
        /\ IsNumber(callResult.affordability.percent)
        /\ IsNumber(callResult.bars.housingCost.percent)
        /\ ~RatIsPos(DataOfCall.totalGrossIncome) =>
              /\ callResult.affordability.percent = RatZero
              /\ callResult.affordability.status = "unknown"
              /\ callResult.bars.housingCost.percent = RatZero
              /\ callResult.bars.housingCost.status = "-"
              /\ CardsShown = << >>
        /\ RatIsPos(DataOfCall.totalGrossIncome) =>
              \A i \in DOMAIN CardsShown :
                  /\ IsNumber(CardsShown[i].incomeShare)
                  /\ IsNumber(CardsShown[i].gdsRatio)
                  /\ IsNumber(CardsShown[i].tdsRatio)
                  /\ callArgs.ownerData[i].income = RatZero =>
                        /\ CardsShown[i].gdsRatio = RatZero
                        /\ CardsShown[i].tdsRatio = RatZero

\* a household with an income above zero, one of whose members has no income
\* but debts
C26_Witness ==
    /\ HasReturned(callResult)
    /\ "bars" \in DOMAIN callResult
    /\ RatIsPos(DataOfCall.totalGrossIncome)
    /\ \E i \in DOMAIN CardsShown :
          /\ callArgs.ownerData[i].income = RatZero
          /\ RatIsPos(CardsShown[i].tdsAmount)
          /\ CardsShown[i].tdsRatio = RatZero

\* a household without income: members whose incomes sum to zero or less
C26_WitnessNoIncome ==
    /\ HasReturned(callResult)
    /\ "bars" \in DOMAIN callResult
    /\ Len(callArgs.ownerData) > 0
    /\ ~RatIsPos(DataOfCall.totalGrossIncome)
    /\ RatIsPos(DataOfCall.totalMonthlyCosts)

(***************************************************************************)
(* The equity chart over several loans.                                    *)
(***************************************************************************)
\* loans of a household: the short and long loans of LoanChoices with an
\* amount of 0, 7 or 480, in lists of up to two
EquityLoans ==
    {l \in LoanChoices :
        /\ l.amount \in {0, 7, 480}
        /\ l.termMonths \in {RatOf(n) : n \in {0, 2, 12, maxMonths + 12}}}
EquityLists ==
    {<< >>} \cup {<<a>> : a \in EquityLoans}
            \cup {<<a, b>> : a \in EquityLoans, b \in EquityLoans}
PropertyValues == {0, 500}

InitEquity ==
    /\ BlankPage
    /\ callArgs \in {[propertyValue |-> v, loans |-> ls] :
                        v \in PropertyValues, ls \in EquityLists}
    /\ callResult = NoCall

\* the loanPaymentDetails the second pass of calculate() builds over the
\* loans from index i on
RECURSIVE LoanDetailsFrom(_, _)
LoanDetailsFrom(loans, i) ==
    IF i > Len(loans) THEN << >>
    ELSE LoanPass("Loan", "other_loan", RatOf(loans[i].amount),
                  RatOf(loans[i].rate), loans[i].termMonths).loanPaymentDetails
             \o LoanDetailsFrom(loans, i + 1)

\* the second pass of calculate() over the loans
CalculateLoans ==
    /\ ~HasReturned(callResult)
    /\ callResult' =
           [ stage |-> "paid",
             loanPaymentDetails |-> LoanDetailsFrom(callArgs.loans, 1) ]
    /\ UNCHANGED callArgs
    /\ PageUntouched

\* updateEquityChart({propertyValue: offerPrice, loanPaymentDetails})
ChartEquity ==
    /\ HasReturned(callResult)
    /\ callResult.stage = "paid"
    /\ callResult' =
           [ stage |-> "done",
             loanPaymentDetails |-> callResult.loanPaymentDetails,
             equity |-> updateEquityChart(RatOf(callArgs.propertyValue),
                            callResult.loanPaymentDetails) ]
    /\ UNCHANGED callArgs
    /\ PageUntouched

SpecEquity == InitEquity /\ [][CalculateLoans \/ ChartEquity]_vars

\* the sum of the amounts of the loans from index i on whose monthly payment
\* is above zero
RECURSIVE AmountsOfPaidLoans(_, _)
AmountsOfPaidLoans(loans, i) ==
    IF i > Len(loans) THEN RatZero
    ELSE RatPlus(IF RatIsPos(calculateMonthlyPayment(RatOf(loans[i].amount),
                                 RatOf(loans[i].rate),
                                 loans[i].termMonths).monthlyPayment)
                 THEN RatOf(loans[i].amount) ELSE RatZero,
                 AmountsOfPaidLoans(loans, i + 1))

\* C27: the equity series has one point per year 0..30; every year the
\* property value is the purchase price and the equity is the property value
\* less the remaining aggregate debt; the debt at year 0 is the sum of the
\* amounts of the loans with a monthly payment above zero; the debt never
\* rises from one year to the next and is never negative.
C27_EquitySeries ==
    (HasReturned(callResult) /\ callResult.stage = "done"
        /\ "loans" \in DOMAIN callArgs) =>
        /\ DOMAIN callResult.equity.remainingDebtData = 1..31
        /\ DOMAIN callResult.equity.equityData = 1..31
        /\ DOMAIN callResult.equity.propertyValueData = 1..31
        /\ callResult.equity.remainingDebtData[1]
               = AmountsOfPaidLoans(callArgs.loans, 1)
        /\ \A y \in 1..31 :
              /\ callResult.equity.propertyValueData[y]
                     = RatOf(callArgs.propertyValue)
              /\ RatPlus(callResult.equity.equityData[y],
                         callResult.equity.remainingDebtData[y])
                     = RatOf(callArgs.propertyValue)
              /\ callResult.equity.remainingDebtData[y].n >= 0
              /\ y < 31 => RatLe(callResult.equity.remainingDebtData[y + 1],
                                 callResult.equity.remainingDebtData[y])

\* two loans, one repaid within a year and one over thirty years, so that
\* the debt falls in the first year and is still owed at year 30
C27_Witness ==
    /\ HasReturned(callResult)
    /\ callResult.stage = "done"
    /\ "loans" \in DOMAIN callArgs
    /\ Len(callResult.loanPaymentDetails) = 2
    /\ callResult.equity.remainingDebtData[1] = RatOf(487)
    /\ RatLt(callResult.equity.remainingDebtData[2],
             callResult.equity.remainingDebtData[1])
    /\ RatIsPos(callResult.equity.remainingDebtData[2])
    /\ RatLt(callResult.equity.remainingDebtData[31],
             callResult.equity.remainingDebtData[2])
    /\ RatIsPos(callResult.equity.remainingDebtData[31])

(***************************************************************************)
(* The rate and the term stored on a loan.                                 *)
(***************************************************************************)
\* C30: after every calculate() pass, each loan-type source that is present
\* has as its stored rate and termMonths the values currently entered in its
\* rate and term fields (the term in years times 12), an amount of 0
\* included.
C30_StoredRateAndTermAreTheEntered ==
    pass.fresh =>
        \A i \in Present(financingSources) :
            FINANCING_TYPES[financingSources[i].sourceType].isLoan =>
                /\ financingSources[i].rate = amountInputs[i].rate
                /\ financingSources[i].termMonths
                       = RatMul(amountInputs[i].term, RatOf(12))

(***************************************************************************)
(* A second pass.                                                          *)
(***************************************************************************)
\* calculate() run once more on the page as it is, no input changed
SecondRun ==
    calculate(financingSources, amountInputs, owners, renovations, offerPrice,
              downPaymentInput, downPaymentMode, is30Year)

\* C23: the outputs of a pass are a function of the current inputs only:
\* calculate() run again with no input changed leaves every source's amount
\* and stored loan figures, the amount fields, the gap, the warnings, the
\* loan totals and loan detail records, the insurance figures and the ratios
\* as the pass before left them; nothing is accumulated.
C23_SecondPassChangesNothing ==
    pass.fresh =>
        /\ ~SecondRun.raised
        /\ SecondRun.fs = financingSources
        /\ SecondRun.dom = amountInputs
        /\ SecondRun.os = owners
        /\ SecondRun.warnings = warnings
        /\ SecondRun.cmhc = cmhc
        /\ SecondRun.pass = pass

\* a pass that left two warnings, a gap, a loan with a payment and a ratio
C23_Witness ==
    /\ pass.fresh
    /\ Len(warnings) >= 2
    /\ pass.downPaymentGap > 0
    /\ Len(pass.loanPaymentDetails) >= 1
    /\ RatIsPos(pass.totalMonthlyLoanPayment)
    /\ pass.bars.perPersonRatios # << >>
    /\ SecondRun.pass.loanPaymentDetails = pass.loanPaymentDetails

(***************************************************************************)
(* Saving and loading.                                                     *)
(***************************************************************************)
\* the fields of a source, a member and a renovation item the stored data
\* holds
SourceFields(source) ==
    [ name |-> source.name,
      sourceType |-> source.sourceType,
      amount |-> source.amount,
      rate |-> source.rate,
      termMonths |-> source.termMonths,
      isAutoFillMortgage |-> source.isAutoFillMortgage,
      isAutoCalculated |-> source.isAutoCalculated ]
MemberFields(owner) ==
    [ name |-> owner.name,
      income |-> owner.income,
      carLoanPayment |-> owner.carLoanPayment,
      studentLoanPayment |-> owner.studentLoanPayment,
      personalLoanPayment |-> owner.personalLoanPayment,
      creditCardPayment |-> owner.creditCardPayment ]
ItemFields(reno) == [description |-> reno.description, amount |-> reno.amount]

\* the non-null entries of a list from index i on, in order
RECURSIVE NonNull(_, _)
NonNull(arr, i) ==
    IF i > Len(arr) THEN << >>
    ELSE IF IsNull(arr[i]) THEN NonNull(arr, i + 1)
    ELSE << arr[i] >> \o NonNull(arr, i + 1)

\* the page saveToStorage() followed by loadFromStorage() on a fresh page
\* yields
SavedAndLoaded ==
    loadFromStorage(saveToStorage(financingSources, amountInputs, owners, renovations,
                                  offerPrice, downPaymentInput, downPaymentMode,
                                  is30Year))

\* C21: saving then loading yields lists of financing sources, members and
\* renovations that hold exactly the non-null entries of the lists saved, in
\* the same order and with the same name, type, amount, rate, term and auto
\* flags; name, income and four debt payments; description and amount.
C21_SaveThenLoadKeepsEntries ==
    /\ [i \in DOMAIN SavedAndLoaded.fs |-> SourceFields(SavedAndLoaded.fs[i])]
           = [i \in DOMAIN NonNull(financingSources, 1) |->
                 SourceFields(NonNull(financingSources, 1)[i])]
    /\ [i \in DOMAIN SavedAndLoaded.owners |-> MemberFields(SavedAndLoaded.owners[i])]
           = [i \in DOMAIN NonNull(owners, 1) |-> MemberFields(NonNull(owners, 1)[i])]
    /\ [i \in DOMAIN SavedAndLoaded.renovations |->
           ItemFields(SavedAndLoaded.renovations[i])]
           = [i \in DOMAIN NonNull(renovations, 1) |->
                 ItemFields(NonNull(renovations, 1)[i])]

LoadFailed ==
    /\ \/ PageLoaded
       \/ \E list \in SavedLists, k \in 1..MaxSources : ImportEdited(list, k)
    /\ ~HasData(storage') \/ LoadRaises(storage')

\* C29: whenever loadFromStorage returns false it has added no financing
\* source, member or renovation, so that the default seeding that runs next
\* starts from empty lists: the page then holds the six seeded sources with
\* exactly one auto-fill mortgage and one gap slot, exactly one member and
\* no renovation.
C29_LoadIsAllOrNothing ==
    [][LoadFailed =>
            /\ Len(financingSources') = Len(DefaultSeeds)
            /\ Cardinality(AutoFillSlots') = 1
            /\ Cardinality(GapSlots') = 1
            /\ Len(owners') = 1
            /\ Cardinality(Present(owners')) = 1
            /\ renovations' = << >>]_vars

====
